---- MODULE Spec2Model ----
(***************************************************************************)
(* A model of the evolution controller of DiaSyncMemory (src/evo):         *)
(*   - Mutator.apply / Mutator.rollback over a small file system,          *)
(*   - score_execution and the orchestrator's workspace-delta override,    *)
(*   - EvolutionOrchestrator._decide (normal mode gates),                  *)
(*   - the epoch loop of EvolutionOrchestrator.run,                        *)
(*   - one scenario of _run_partition on a git worktree, select_batch,     *)
(*     the deterministic fallback and Mutator.propose,                     *)
(*   - OpenCodeClient.run_message with its heartbeat thread, the provider  *)
(*     retry loop of ScenarioRunner, one evaluation pass and its rates.    *)
(*                                                                         *)
(* Text is a sequence of one-character strings over Alphabet; the bytes of *)
(* a file are a sequence over the same alphabet ("CR" and "LF" stand for   *)
(* the bytes 0x0D and 0x0A).  A path is a sequence of path components.     *)
(***************************************************************************)
EXTENDS Integers, Sequences, FiniteSets, TLC

VARIABLES
    files,      \* workspace files: resolved path -> bytes on disk
    dirs,       \* directories that exist (resolved paths)
    linesep,    \* os.linesep of the platform the controller runs on
    wlog,       \* every path a Mutator call wrote or unlinked (observation)
    proposal,   \* the MutationProposal's operations
    tx,         \* the MutationTransaction
    mpc,        \* Mutator harness position
    pre,        \* the workspace when apply was called (observation)
    post,       \* the workspace after the first rollback (observation)
    nroll,      \* rollbacks of the current transaction so far
    nexec,      \* operations the loop of apply started (observation)
    sin,        \* score_execution's arguments for the scenario being scored
    sres,       \* the ScenarioResult of that scenario
    spc,        \* position in one iteration of _run_partition
    din,        \* the arguments and configuration of one _decide call
    dres,       \* the Decision it returned
    dpc,        \* position of the _decide harness
    ocfg,       \* the configuration and flags of the run
    run,        \* the locals of EvolutionOrchestrator.run
    opc,        \* position of the control thread in run
    obs,        \* observations: the last evaluation pass, the epoch's start
    gws,        \* the git worktree of one scenario of _run_partition
    bat,        \* calls of select_batch and the process-wide random generator
    pol,        \* the fallback target file and the feedback block upserted into it
    prp,        \* one call of Mutator.propose: its inputs and what it returned
    hb,         \* one external call: the control thread and its heartbeat thread
    rty,        \* one call of ScenarioRunner._run_with_provider_retry
    snp         \* the results of one evaluation pass and the rates over them

scoreVars == <<sin, sres, spc>>

decVars == <<din, dres, dpc>>

orchVars == <<ocfg, run, opc, obs>>

mutVars == <<files, dirs, linesep, wlog, proposal, tx, mpc, pre, post, nroll, nexec>>

guardVars == <<gws>>

batchVars == <<bat>>

policyVars == <<pol>>

proposeVars == <<prp>>

beatVars == <<hb>>

retryVars == <<rty>>

snapVars == <<snp>>

callVars == <<proposeVars, beatVars, retryVars, snapVars>>

vars == <<mutVars, scoreVars, decVars, orchVars, guardVars, batchVars, policyVars, callVars>>

notMutVars == <<scoreVars, decVars, orchVars, guardVars, batchVars, policyVars, callVars>>

notScoreVars == <<mutVars, decVars, orchVars, guardVars, batchVars, policyVars, callVars>>

notDecVars == <<mutVars, scoreVars, orchVars, guardVars, batchVars, policyVars, callVars>>

notOrchVars == <<mpc, post, nroll, scoreVars, decVars, guardVars, batchVars, policyVars, callVars>>

(***************************************************************************)
(* Bounds of the model.                                                    *)
(***************************************************************************)
MaxOps == 2         \* operations per proposal
MaxRollbacks == 3   \* rollbacks of one transaction the harness performs
MaxMinimumReads == 2    \* largest skill_hydration.minimum_reads tried
MaxEpochs == 2      \* max_epochs of the runs tried

(***************************************************************************)
(* Strings.                                                                *)
(***************************************************************************)
None == <<"None">>      \* Python's None for an optional string field

IsPrefix(p, s) == Len(p) <= Len(s) /\ SubSeq(s, 1, Len(p)) = p

\* str.find: the 0-based index of the first occurrence of s in cur, or -1.
StrFind(cur, s) ==
    LET idx == {i \in 0..(Len(cur) - Len(s)) : SubSeq(cur, i + 1, i + Len(s)) = s}
    IN  IF idx = {} THEN -1 ELSE CHOOSE i \in idx : \A j \in idx : i <= j

\* Path.read_text(encoding="utf-8"): text mode with universal newlines,
\* "\r\n" and a lone "\r" are both read as "\n".
RECURSIVE ReadText(_)
ReadText(b) ==
    IF b = <<>> THEN <<>>
    ELSE IF Head(b) = "CR"
         THEN IF Len(b) >= 2 /\ b[2] = "LF"
              THEN <<"LF">> \o ReadText(SubSeq(b, 3, Len(b)))
              ELSE <<"LF">> \o ReadText(Tail(b))
         ELSE <<Head(b)>> \o ReadText(Tail(b))

\* Path.write_text(text, encoding="utf-8"): text mode, every "\n" is written
\* as os.linesep; any other character is written as it is.
RECURSIVE WriteText(_, _)
WriteText(t, sep) ==
    IF t = <<>> THEN <<>>
    ELSE (IF Head(t) = "LF" THEN sep ELSE <<Head(t)>>) \o WriteText(Tail(t), sep)

(***************************************************************************)
(* Paths and the mutation path policy.                                     *)
(***************************************************************************)
WorkspaceRoot == <<"ws">>

\* Path.resolve(): "." is dropped, ".." removes the last component (the file
\* system root is its own parent).  The model has no symbolic links.
RECURSIVE Collapse(_, _)
Collapse(acc, rest) ==
    IF rest = <<>> THEN acc
    ELSE IF Head(rest) = "." THEN Collapse(acc, Tail(rest))
    ELSE IF Head(rest) = ".."
         THEN Collapse(IF acc = <<>> THEN <<>> ELSE SubSeq(acc, 1, Len(acc) - 1), Tail(rest))
         ELSE Collapse(Append(acc, Head(rest)), Tail(rest))

\* (workspace_root / normalized).resolve(); a raw path whose first component
\* is "/" is absolute and replaces the workspace root in the join.
Resolve(raw) ==
    IF raw # <<>> /\ Head(raw) = "/" THEN Collapse(<<>>, Tail(raw))
    ELSE Collapse(WorkspaceRoot, raw)

InWorkspace(candidate) == IsPrefix(WorkspaceRoot, candidate)

RelPath(candidate) == SubSeq(candidate, Len(WorkspaceRoot) + 1, Len(candidate))

\* mutation.allow_paths / mutation.deny_paths, as non-empty component lists.
AllowPaths == {<<"skills">>, <<"scripts", "memoryctl.py">>}
DenyPaths == {<<"skills", "private">>}

\* rel == p or rel.startswith(p + "/")
PrefixMatch(rel, prefixes) == \E p \in prefixes : IsPrefix(p, rel)

IsAllowed(rel) == PrefixMatch(rel, AllowPaths)
IsDenied(rel) == PrefixMatch(rel, DenyPaths)

ResolveAndValidateNoDeny(raw) ==
    LET candidate == Resolve(raw) IN
    IF ~InWorkspace(candidate)
    THEN [ok |-> FALSE, path |-> candidate, why |-> "path escapes workspace root"]
    ELSE IF ~IsAllowed(RelPath(candidate))
    THEN [ok |-> FALSE, path |-> candidate, why |-> "path is outside mutation allow-list"]
    ELSE [ok |-> TRUE, path |-> candidate, why |-> ""]

ResolveAndValidate(raw) ==
    LET candidate == Resolve(raw) IN
    IF ~InWorkspace(candidate)
    THEN [ok |-> FALSE, path |-> candidate, why |-> "path escapes workspace root"]
    ELSE IF IsDenied(RelPath(candidate))
    THEN [ok |-> FALSE, path |-> candidate, why |-> "path is denied by mutation policy"]
    ELSE IF ~IsAllowed(RelPath(candidate))
    THEN [ok |-> FALSE, path |-> candidate, why |-> "path is outside mutation allow-list"]
    ELSE [ok |-> TRUE, path |-> candidate, why |-> ""]

(***************************************************************************)
(* The file system a Mutator call works on: fs = [files, dirs, wlog].      *)
(***************************************************************************)
Parent(p) == SubSeq(p, 1, Len(p) - 1)

Ancestors(p) == {SubSeq(p, 1, n) : n \in 0..(Len(p) - 1)}

IsFile(fs, p) == p \in DOMAIN fs.files

PathExists(fs, p) == p \in DOMAIN fs.files \/ p \in fs.dirs

\* path.parent.mkdir(parents=True, exist_ok=True): fails when an ancestor is
\* a file.
MkdirParents(fs, p) ==
    IF \E a \in Ancestors(p) : IsFile(fs, a)
    THEN [ok |-> FALSE, fs |-> fs]
    ELSE [ok |-> TRUE, fs |-> [fs EXCEPT !.dirs = @ \cup Ancestors(p)]]

\* path.write_text(text): needs the parent directory and no directory at p.
WriteFile(fs, p, text, sep) ==
    IF p = <<>> \/ Parent(p) \notin fs.dirs \/ p \in fs.dirs
    THEN [ok |-> FALSE, fs |-> fs]
    ELSE [ok |-> TRUE,
          fs |-> [fs EXCEPT
                    !.files = [q \in (DOMAIN @) \cup {p} |->
                                 IF q = p THEN WriteText(text, sep) ELSE @[q]],
                    !.wlog = @ \cup {p}]]

\* path.unlink()
Unlink(fs, p) ==
    [fs EXCEPT !.files = [q \in (DOMAIN @) \ {p} |-> @[q]],
               !.wlog = @ \cup {p}]

(***************************************************************************)
(* Mutator._apply_operation, Mutator.apply and Mutator.rollback.           *)
(* A transaction is [changed_paths, backups, errors]; backups keeps the    *)
(* insertion order of the dict: a sequence of [path, existed, content].    *)
(***************************************************************************)
EmptyTx == [changed_paths |-> <<>>, backups |-> <<>>, errors |-> <<>>]

BackupPaths(t) == {t.backups[i].path : i \in 1..Len(t.backups)}

SeqHas(s, x) == \E i \in 1..Len(s) : s[i] = x

Failed(fs) == [ok |-> FALSE, fs |-> fs]

\* current = path.read_text() if path.exists() else ""
CurrentText(fs, path) == IF IsFile(fs, path) THEN ReadText(fs.files[path]) ELSE <<>>

\* The text with ins put at 0-based position pos, cut characters removed there.
Splice(cur, pos, cut, ins) ==
    SubSeq(cur, 1, pos) \o ins \o SubSeq(cur, pos + cut + 1, Len(cur))

ApplyOperation(fs, path, o, sep) ==
    LET current == CurrentText(fs, path) IN
    IF o.op = "write_file" THEN
        IF o.content = None THEN Failed(fs)
        ELSE LET m == MkdirParents(fs, path) IN
             IF m.ok THEN WriteFile(m.fs, path, o.content, sep) ELSE Failed(fs)
    ELSE IF path \in fs.dirs THEN Failed(fs)
    ELSE IF o.op = "replace_text" THEN
        IF o.find = None \/ o.replace = None THEN Failed(fs)
        ELSE IF StrFind(current, o.find) = -1 THEN Failed(fs)
        ELSE WriteFile(fs, path,
                       Splice(current, StrFind(current, o.find), Len(o.find), o.replace), sep)
    ELSE IF o.op = "insert_after" THEN
        IF o.anchor = None \/ o.text = None THEN Failed(fs)
        ELSE IF StrFind(current, o.anchor) = -1 THEN Failed(fs)
        ELSE WriteFile(fs, path,
                       Splice(current, StrFind(current, o.anchor) + Len(o.anchor), 0, o.text), sep)
    ELSE IF o.op = "insert_before" THEN
        IF o.anchor = None \/ o.text = None THEN Failed(fs)
        ELSE IF StrFind(current, o.anchor) = -1 THEN Failed(fs)
        ELSE WriteFile(fs, path, Splice(current, StrFind(current, o.anchor), 0, o.text), sep)
    ELSE IF o.op = "append_text" THEN
        IF o.text = None THEN Failed(fs)
        ELSE LET m == MkdirParents(fs, path) IN
             IF m.ok THEN WriteFile(m.fs, path, current \o o.text, sep) ELSE Failed(fs)
    ELSE Failed(fs)

\* A rollback that opens the backed-up file for appending instead of
\* overwriting it.
RollbackOneAppending(fs, b, sep) ==
    IF b.existed
    THEN WriteFile(MkdirParents(fs, b.path).fs, b.path,
                   CurrentText(fs, b.path) \o b.content, sep).fs
    ELSE IF PathExists(fs, b.path) THEN Unlink(fs, b.path) ELSE fs

\* One backed-up path of rollback's loop.
RollbackOne(fs, b, sep) ==
    IF b.existed
    THEN WriteFile(MkdirParents(fs, b.path).fs, b.path, b.content, sep).fs
    ELSE IF PathExists(fs, b.path) THEN Unlink(fs, b.path) ELSE fs

RECURSIVE RollbackFrom(_, _, _)
RollbackFrom(fs, backups, sep) ==
    IF backups = <<>> THEN fs
    ELSE RollbackFrom(RollbackOne(fs, Head(backups), sep), Tail(backups), sep)

Rollback(fs, t, sep) == RollbackFrom(fs, t.backups, sep)

\* The backup apply takes the first time it touches path.
TakeBackup(fs, t, path) ==
    IF path \in BackupPaths(t) THEN t
    ELSE [t EXCEPT !.backups =
            Append(@, [path |-> path, existed |-> PathExists(fs, path),
                       content |-> CurrentText(fs, path)])]

\* The except branch of apply: record the error, roll back, leave the loop.
\* apply that neither records the error nor rolls back.
AbortSilently(fs, t, o, n, sep) == [fs |-> fs, tx |-> t, nexec |-> n]

Abort(fs, t, o, n, sep) ==
    [fs |-> Rollback(fs, t, sep),
     tx |-> [t EXCEPT !.errors = Append(@, o.path)],
     nexec |-> n]

\* The loop of apply over the operations left; n operations were started.
RECURSIVE ApplyFrom(_, _, _, _, _)
ApplyFrom(fs, t, ops, n, sep) ==
    IF ops = <<>> THEN [fs |-> fs, tx |-> t, nexec |-> n]
    ELSE LET o == Head(ops)
             v == ResolveAndValidate(o.path)
             t1 == TakeBackup(fs, t, v.path)
             r == ApplyOperation(fs, v.path, o, sep)
         IN  IF ~v.ok THEN Abort(fs, t, o, n + 1, sep)
             ELSE IF v.path \notin BackupPaths(t) /\ v.path \in fs.dirs
                  THEN Abort(fs, t, o, n + 1, sep)
             ELSE IF ~r.ok THEN Abort(r.fs, t1, o, n + 1, sep)
             ELSE ApplyFrom(r.fs,
                            [t1 EXCEPT !.changed_paths =
                                IF SeqHas(@, v.path) THEN @ ELSE Append(@, v.path)],
                            Tail(ops), n + 1, sep)

Apply(fs, ops, sep) == ApplyFrom(fs, EmptyTx, ops, 0, sep)

(***************************************************************************)
(* Inputs of the Mutator: operations, proposals, workspaces.               *)
(***************************************************************************)
Op(kind, path, find, replace, anchor, text, content) ==
    [op |-> kind, path |-> path, find |-> find, replace |-> replace,
     anchor |-> anchor, text |-> text, content |-> content]

SkillMd == <<"skills", "SKILL.md">>
SkillMdAlias == <<"docs", "..", "skills", ".", "SKILL.md">>
NewMd == <<"skills", "ref", "new.md">>
PrivateMd == <<"skills", "private", "k.md">>
RuntimeScript == <<"scripts", "memoryctl.py">>

OpPool ==
    { Op("append_text", SkillMd, None, None, None, <<"b">>, None),
      Op("write_file", NewMd, None, None, None, None, <<"a", "LF">>),
      Op("replace_text", SkillMd, <<"b">>, <<"a", "a">>, None, None, None),
      Op("insert_after", SkillMdAlias, None, None, <<"LF">>, <<"b">>, None),
      Op("insert_before", NewMd, None, None, <<>>, <<"a">>, None),
      Op("write_file", SkillMd, None, None, None, None, None),
      Op("delete_file", SkillMd, None, None, None, None, None),
      Op("write_file", <<"..", "out.md">>, None, None, None, None, <<"a">>),
      Op("write_file", <<"/", "etc", "x">>, None, None, None, None, <<"a">>),
      Op("append_text", <<"skills", "ref", "..", "private", "k.md">>, None, None, None, <<"a">>, None),
      Op("replace_text", <<"docs", "x.md">>, <<>>, <<"a">>, None, None, None),
      Op("append_text", <<"skills">>, None, None, None, <<"a">>, None),
      Op("write_file", <<"skills", "SKILL.md", "x">>, None, None, None, None, <<"a">>) }

RECURSIVE SeqsUpTo(_, _)
SeqsUpTo(S, n) ==
    IF n = 0 THEN {<<>>}
    ELSE LET shorter == SeqsUpTo(S, n - 1)
         IN  shorter \cup {Append(q, x) : q \in shorter, x \in S}

Proposals == SeqsUpTo(OpPool, MaxOps) \ {<<>>}

Abs(rel) == WorkspaceRoot \o rel

\* The bytes SKILL.md may hold before the run; NoFile: it does not exist.
NoFile == <<"NoFile">>
SkillMdContents == {NoFile, <<"a">>, <<"a", "LF", "b">>, <<"a", "CR", "LF", "b">>, <<"b", "CR">>}

Workspace(skill) ==
    [files |-> [q \in {Abs(PrivateMd), Abs(RuntimeScript)}
                     \cup (IF skill = NoFile THEN {} ELSE {Abs(SkillMd)}) |->
                  IF q = Abs(SkillMd) THEN skill ELSE <<"a">>],
     dirs |-> {<<>>, WorkspaceRoot, Abs(<<"skills">>), Abs(<<"skills", "private">>),
               Abs(<<"scripts">>)}]

LineSeps == {<<"LF">>, <<"CR", "LF">>}

Fs == [files |-> files, dirs |-> dirs, wlog |-> wlog]

Disk == [files |-> files, dirs |-> dirs]

(***************************************************************************)
(* Scoring: probe.hard_pass, _machine_penalty, _fallback_judge_score and   *)
(* score_execution.  Scores are integers on the judge's 0-100 scale and    *)
(* validation_confidence is in hundredths.                                 *)
(***************************************************************************)
SCORE_DIMENSIONS == {"diachronic", "synchronic", "governance", "realism", "skill_alignment"}

Max(a, b) == IF a >= b THEN a ELSE b
Min(a, b) == IF a <= b THEN a ELSE b
Bit(b) == IF b THEN 1 ELSE 0

IsSuffix(q, t) == Len(q) <= Len(t) /\ SubSeq(t, Len(t) - Len(q) + 1, Len(t)) = q

\* observed.endswith(required), both with "/" separators
PathMatches(observed, required) == IsSuffix(required, observed)

\* MemoryProbe.run: hard_pass of the probe payload
ProbeHardPass(probe) ==
    probe.ok /\ probe.error_count = 0 /\ probe.warning_count = 0

MachinePenalty(e, cfg) ==
    IF ~e.has_memoryctl THEN [count |-> 1, hydration_fail |-> FALSE]
    ELSE LET low == cfg.enforce /\ Len(e.read_paths) < Max(0, cfg.minimum_reads)
             missing == cfg.enforce /\
                        \E r \in cfg.required_paths :
                            ~\E i \in 1..Len(e.read_paths) : PathMatches(e.read_paths[i], r)
         IN  [count |-> Bit(~e.root_targeted) + Bit(e.open_lifecycle) + Bit(e.session_gap)
                        + Bit(low) + Bit(missing),
              hydration_fail |-> cfg.hard_fail_missing /\ (low \/ missing)]

FallbackJudgeScore(e, probe) ==
    LET validate_ok == probe.ok /\ probe.error_count = 0
        score == 45 + (IF validate_ok THEN 20 ELSE 0)
                    + (IF probe.diagnose_score >= 95 THEN 15 ELSE 0)
                    + (IF e.read_paths # <<>> THEN 8 ELSE 0)
                    + (IF e.root_hint THEN 7 ELSE 0)
        capped == Max(0, Min(100, score))
    IN  [overall |-> capped, dimensions |-> [d \in SCORE_DIMENSIONS |-> capped]]

\* score_execution up to the fitness; zero says whether a failed hard pass
\* forces the fitness to 0.
ScoreWith(a, zero) ==
    LET e == a.execution
        judge_unavailable == SeqHas(a.judge.hard_failures, "judge_response_not_json")
        judge_unreliable == judge_unavailable \/
                            (a.judge.overall <= 0 /\ a.judge.hard_failures # <<>>)
        fallback == FallbackJudgeScore(e, a.probe)
        score0 == IF judge_unreliable THEN fallback.overall ELSE a.judge.overall
        dims0 == IF judge_unreliable THEN fallback.dimensions ELSE a.judge.dimensions
        hard_failures == IF judge_unreliable THEN <<>> ELSE a.judge.hard_failures
        mp == MachinePenalty(e, a.cfg)
        hard_pass == ProbeHardPass(a.probe) /\ hard_failures = <<>> /\ ~mp.hydration_fail
                     /\ ~e.provider_blocked
        confidence == Min(Min(IF judge_unreliable THEN 60 ELSE 100,
                              IF e.provider_blocked THEN 20 ELSE 100),
                          IF e.fallback_only_mode THEN 30
                          ELSE IF e.fallback_used THEN 65 ELSE 100)
        total_penalty == (IF e.fallback_only_mode THEN 35
                          ELSE IF e.fallback_used THEN 15 ELSE 0)
                         + (IF e.provider_blocked THEN 45 ELSE 0)
        judge_score == IF total_penalty > 0 THEN Max(0, score0 - total_penalty) ELSE score0
        fitness == Max(0, judge_score - 8 * mp.count)
    IN  [hard_pass |-> hard_pass,
         fitness |-> IF zero /\ ~hard_pass THEN 0 ELSE fitness,
         judge_score |-> judge_score,
         dimensions |-> [d \in SCORE_DIMENSIONS |->
                           IF total_penalty > 0 THEN Max(0, dims0[d] - total_penalty)
                           ELSE dims0[d]],
         hard_failures |-> hard_failures,
         fallback_scored |-> judge_unreliable,
         penalties |-> mp.count,
         fallback_used |-> e.fallback_used,
         provider_blocked |-> e.provider_blocked,
         validation_confidence |-> confidence]

ScoreExecutionKeepingFitness(a) == ScoreWith(a, FALSE)

\* score_execution without the provider-blocked branch: the penalty, the
\* failed hard pass and the low confidence of a blocked run are left out.
ScoreExecutionIgnoringBlock(a) ==
    [ScoreWith([a EXCEPT !.execution.provider_blocked = FALSE], TRUE)
        EXCEPT !.provider_blocked = a.execution.provider_blocked]

ScoreExecution(a) == ScoreWith(a, TRUE)

(***************************************************************************)
(* SkillJudge.score.  A response text is <<>> when no JSON object can be   *)
(* read from it and <<object>> otherwise; a key the object may lack holds  *)
(* <<>> when absent and <<value>> when present.                            *)
(***************************************************************************)
\* _normalize_judge_candidate: None (<<>>) without a numeric overall; absent
\* dimensions are filled with the overall score, a missing dimension with
\* the mean of those present.
NormalizeJudgeCandidate(text) ==
    IF text = <<>> \/ text[1].overall = <<>> THEN <<>>
    ELSE LET payload == text[1]
             overall == payload.overall[1]
             raw == IF payload.dimensions = <<>> THEN <<>> ELSE payload.dimensions[1]
             Sum[S \in SUBSET DOMAIN raw] ==
                 IF S = {} THEN 0
                 ELSE LET k == CHOOSE k \in S : TRUE IN raw[k] + Sum[S \ {k}]
             dimension_fill == IF DOMAIN raw = {} THEN overall
                               ELSE Sum[DOMAIN raw] \div Cardinality(DOMAIN raw)
         IN << [overall |-> Max(0, Min(100, overall)),
                dimensions |-> [d \in SCORE_DIMENSIONS |->
                                  IF d \in DOMAIN raw THEN raw[d] ELSE dimension_fill],
                hard_failures |-> payload.hard_failures] >>

\* _is_valid_judge_payload over what _extract_judge_payload returns: None
\* is invalid, and a normalized candidate holds every key with the type
\* the test asks for.
IsValidJudgePayload(parsed) == parsed # <<>>

\* _is_unusable_judge_payload of a valid payload.
IsUnusableJudgePayload(parsed) ==
    parsed[1].hard_failures # <<>> \/ parsed[1].overall <= 0

\* SkillJudge.score over the responses of the judge, the JSON repair, the
\* forced JSON request and the compact score request.
SkillJudgeScore(r) ==
    LET first == NormalizeJudgeCandidate(r.judge_run)
        repaired == IF ~IsValidJudgePayload(first)
                       /\ IsValidJudgePayload(NormalizeJudgeCandidate(r.repaired))
                    THEN NormalizeJudgeCandidate(r.repaired) ELSE first
        forced == IF ~IsValidJudgePayload(repaired)
                     /\ IsValidJudgePayload(NormalizeJudgeCandidate(r.forced))
                  THEN NormalizeJudgeCandidate(r.forced) ELSE repaired
        compact == IF IsValidJudgePayload(forced) /\ IsUnusableJudgePayload(forced)
                      /\ IsValidJudgePayload(NormalizeJudgeCandidate(r.compact))
                   THEN NormalizeJudgeCandidate(r.compact) ELSE forced
    IN IF ~IsValidJudgePayload(compact)
       THEN [overall |-> 0, dimensions |-> [d \in SCORE_DIMENSIONS |-> 0],
             hard_failures |-> <<"judge_response_not_json">>]
       ELSE compact[1]

\* responses the language model behind the judge may give.
JudgeTexts ==
    {<<>>}
    \cup {<< [overall |-> o, dimensions |-> d, hard_failures |-> hf] >> :
            o \in {<<>>, <<0>>, <<80>>},
            d \in {<<>>, <<[k \in SCORE_DIMENSIONS |-> 70]>>, <<[k \in {"diachronic"} |-> 60]>>},
            hf \in {<<>>, <<"lost an event">>}}

JudgeRuns ==
    [judge_run : JudgeTexts,
     repaired : {<<>>, << [overall |-> <<80>>, dimensions |-> <<>>, hard_failures |-> <<>>] >>},
     forced : {<<>>, << [overall |-> <<70>>, dimensions |-> <<[k \in SCORE_DIMENSIONS |-> 70]>>,
                         hard_failures |-> <<>>] >>},
     compact : {<<>>, << [overall |-> <<60>>, dimensions |-> <<>>, hard_failures |-> <<>>] >>}]

\* _run_partition: the override when the run left a workspace delta
DeltaOverride(r, workspace_delta) ==
    IF workspace_delta THEN [r EXCEPT !.hard_pass = FALSE, !.fitness = 0] ELSE r

(***************************************************************************)
(* Inputs of score_execution.                                              *)
(***************************************************************************)
RequiredSkill == <<"skills", "/", "SKILL.md">>

ReadPathLists ==
    { <<>>,
      << <<"docs", "/", "x.md">> >>,
      << <<"ws", "/", "skills", "/", "SKILL.md">> >> }

Executions ==
    { [provider_blocked |-> pb, fallback_only_mode |-> fb = "only",
       fallback_used |-> fb # "none",
       has_memoryctl |-> cmds # "none", root_targeted |-> cmds = "rooted",
       root_hint |-> cmds \in {"wrong_root", "rooted"},
       open_lifecycle |-> cmds # "none" /\ open, session_gap |-> gap,
       read_paths |-> reads] :
         pb \in BOOLEAN, fb \in {"none", "used", "only"},
         cmds \in {"none", "wrong_root", "rooted"},
         open \in BOOLEAN, gap \in BOOLEAN, reads \in ReadPathLists }

Probes ==
    { [ok |-> TRUE, error_count |-> 0, warning_count |-> 0, diagnose_score |-> 100],
      [ok |-> TRUE, error_count |-> 0, warning_count |-> 1, diagnose_score |-> 100],
      [ok |-> TRUE, error_count |-> 0, warning_count |-> 0, diagnose_score |-> 0],
      [ok |-> FALSE, error_count |-> 1, warning_count |-> 0, diagnose_score |-> 0] }

JudgePayloads ==
    { [overall |-> o, dimensions |-> [d \in SCORE_DIMENSIONS |-> o], hard_failures |-> hf] :
         o \in {0, 50, 100},
         hf \in {<<>>, <<"lost an event">>, <<"judge_response_not_json">>} }

HydrationConfigs ==
    { [enforce |-> en, hard_fail_missing |-> hard, minimum_reads |-> m,
       required_paths |-> {RequiredSkill}] :
         en \in BOOLEAN, hard \in BOOLEAN, m \in 1..MaxMinimumReads }

ScoreInputs ==
    [execution : Executions, probe : Probes, judge : JudgePayloads, cfg : HydrationConfigs]

NoInput == CHOOSE a \in ScoreInputs : TRUE

NoResult == ScoreExecution(NoInput)

IdleScore == sin = NoInput /\ sres = NoResult /\ spc = "idle"

(***************************************************************************)
(* The git worktree of the workspace during one scenario. Paths and status *)
(* lines are spelled character by character: the revert slices each line   *)
(* by character position.                                                  *)
(***************************************************************************)
SkillPath == <<"s", "/", "k">>

NotesPath == <<"n", "o">>

\* the committed tree (HEAD and index): path -> content.
GitHead == (SkillPath :> "v0") @@ (NotesPath :> "v0")

\* str.strip() over a line of characters whose only whitespace is " ".
Strip(line) ==
    LET keep == {i \in 1..Len(line) : line[i] # " "}
        first == CHOOSE i \in keep : \A j \in keep : i <= j
        last == CHOOSE i \in keep : \A j \in keep : i >= j
    IN IF keep = {} THEN <<>> ELSE SubSeq(line, first, last)

\* git status --porcelain of a worktree whose index equals HEAD: " M" for a
\* tracked file that differs, " D" for a tracked file that is gone, "??"
\* for an untracked file, or for its top directory when that directory
\* holds no tracked file.
GitPorcelain(tree) ==
    LET tracked == DOMAIN GitHead
        TopDir(p) == SubSeq(p, 1, CHOOSE i \in 1..Len(p) : p[i] = "/" /\ \A j \in 1..(i - 1) : p[j] # "/")
        InTrackedDir(p) == \E q \in tracked : Len(q) >= Len(TopDir(p)) /\ SubSeq(q, 1, Len(TopDir(p))) = TopDir(p)
        Shown(p) == IF (\E i \in 1..Len(p) : p[i] = "/") /\ ~InTrackedDir(p) THEN TopDir(p) ELSE p
    IN {<<" ", "M", " ">> \o p : p \in {q \in tracked \cap DOMAIN tree : tree[q] # GitHead[q]}}
       \cup {<<" ", "D", " ">> \o p : p \in tracked \ DOMAIN tree}
       \cup {<<"?", "?", " ">> \o Shown(p) : p \in DOMAIN tree \ tracked}

\* _git_status_lines: the stripped, non-empty lines of the porcelain status.
GitStatusLines(tree) == {Strip(line) : line \in {l \in GitPorcelain(tree) : Strip(l) # <<>>}}

\* _revert_workspace_delta: a line shorter than four characters is skipped;
\* the status is the first two characters and the path the stripped rest
\* from the fourth on. "??" unlinks the file or removes the directory of
\* that name; any other status runs git checkout on the path, which
\* restores a tracked file of exactly that name and otherwise fails with no
\* effect. The steps touch distinct paths, so their order (sorted) is
\* immaterial.
RevertWorkspaceDelta(tree, delta) ==
    LET lines == {line \in delta : Len(line) >= 4}
        status(line) == SubSeq(line, 1, 2)
        path_text(line) == Strip(SubSeq(line, 4, Len(line)))
        IsUnder(p, d) == d # <<>> /\ d[Len(d)] = "/" /\ Len(p) > Len(d) /\ SubSeq(p, 1, Len(d)) = d
        removed == {p \in DOMAIN tree : \E line \in lines :
                        /\ status(line) = <<"?", "?">>
                        /\ (path_text(line) = p \/ IsUnder(p, path_text(line)))}
        restored == {p \in DOMAIN GitHead : \E line \in lines :
                        status(line) # <<"?", "?">> /\ path_text(line) = p}
    IN [p \in (DOMAIN tree \ removed) \cup restored |->
            IF p \in restored THEN GitHead[p] ELSE tree[p]]

NoGuard ==
    [pc |-> "idle", tree |-> GitHead, before_status |-> {}, workspace_delta |-> {},
     force_fallback_mode |-> FALSE, scenarios |-> 0, input |-> NoInput,
     judge |-> [judge_run |-> <<>>, repaired |-> <<>>, forced |-> <<>>, compact |-> <<>>],
     result |-> NoResult]

IdleGuard == gws = NoGuard

(***************************************************************************)
(* select_batch.  A pseudo-random generator is modelled by its state, a    *)
(* number below 16 that every draw advances by a fixed rule; a scenario is *)
(* its id and its difficulty.                                              *)
(***************************************************************************)
MaxPool == 3        \* longest scenario pool and largest difficulty tried

\* the process-wide generator in place of a seeded one.
GlobalRandom(seed, global_state) == global_state

\* random.Random(seed + epoch): a generator of its own, whose state is
\* fixed by the seed whatever the state of the process-wide generator.
NewRandom(seed, global_state) == seed % 16

\* rnd.sample(population, k) for a short population: k draws, each taking
\* pool[j] for j below the remaining length and moving the last remaining
\* element into its place.
Sample(population, k, state) ==
    LET RECURSIVE Draw(_, _, _)
        Draw(pool, i, s) ==
            IF i = k THEN <<>>
            ELSE LET s1 == (5 * s + 3) % 16
                     n == Len(population) - i
                     j == (s1 % n) + 1
                 IN <<pool[j]>> \o Draw([pool EXCEPT ![j] = pool[n]], i + 1, s1)
    IN Draw(population, 0, state)

\* select_batch without the curriculum stage.
SelectBatchUnstaged(scenarios, batch_size, epoch, seed, curriculum_enabled, global_state) ==
    IF scenarios = <<>> THEN <<>>
    ELSE IF batch_size <= 0 \/ batch_size >= Len(scenarios) THEN scenarios
    ELSE Sample(scenarios, batch_size, NewRandom(seed + epoch, global_state))

SelectBatch(scenarios, batch_size, epoch, seed, curriculum_enabled, global_state) ==
    IF scenarios = <<>> THEN <<>>
    ELSE LET difficulties == {scenarios[i].difficulty : i \in 1..Len(scenarios)}
             max_difficulty == CHOOSE d \in difficulties : \A e \in difficulties : e <= d
             stage_ceiling == Min(max_difficulty, 1 + (epoch \div 2))
             staged == SelectSeq(scenarios, LAMBDA s : s.difficulty <= stage_ceiling)
             selected_pool == IF curriculum_enabled /\ staged # <<>> THEN staged ELSE scenarios
         IN IF batch_size <= 0 \/ batch_size >= Len(selected_pool) THEN selected_pool
            ELSE Sample(selected_pool, batch_size, NewRandom(seed + epoch, global_state))

NoBatch ==
    [input |-> [scenarios |-> <<>>, batch_size |-> 0, epoch |-> 0, seed |-> 0,
                curriculum_enabled |-> TRUE],
     global_state |-> 0, draws |-> 0, results |-> <<>>]

IdleBatch == bat = NoBatch

(***************************************************************************)
(* The deterministic fallback's feedback block.  A text is a sequence of   *)
(* pieces: "S" and "E" are the EVO-POLICY start and end markers, "L" a     *)
(* whole legacy EVO-FEEDBACK comment, "\n" a newline, anything else a run  *)
(* of other characters without whitespace at its ends.                     *)
(***************************************************************************)
MaxText == 4        \* pieces of the longest target file tried

\* _ensure_text_newline
EnsureTextNewline(value) ==
    IF value # <<>> /\ value[Len(value)] = "\n" THEN value ELSE value \o <<"\n">>

\* _upsert_feedback_block: with both markers in the text the leftmost
\* start marker that has an end marker after it, up to the first such end
\* marker, is replaced by the block; otherwise legacy comments (each with
\* one newline before and after it, when present) become one newline,
\* trailing whitespace is stripped and the block is appended after an
\* empty line.
UpsertFeedbackBlock(current_text, feedback_block) ==
    LET n == Len(current_text)
        starts == {i \in 1..n : current_text[i] = "S" /\ \E j \in (i + 1)..n : current_text[j] = "E"}
        first == CHOOSE i \in starts : \A k \in starts : i <= k
        last == CHOOSE j \in (first + 1)..n :
                    current_text[j] = "E" /\ \A k \in (first + 1)..(j - 1) : current_text[k] # "E"
        RECURSIVE Clean(_)
        Clean(i) ==
            IF i > n THEN <<>>
            ELSE IF current_text[i] = "\n" /\ i < n /\ current_text[i + 1] = "L"
                 THEN <<"\n">> \o Clean(IF i + 2 <= n /\ current_text[i + 2] = "\n" THEN i + 3 ELSE i + 2)
            ELSE IF current_text[i] = "L"
                 THEN <<"\n">> \o Clean(IF i + 1 <= n /\ current_text[i + 1] = "\n" THEN i + 2 ELSE i + 1)
            ELSE <<current_text[i]>> \o Clean(i + 1)
        cleaned == Clean(1)
        kept == {i \in 1..Len(cleaned) : cleaned[i] # "\n"}
        stripped == IF kept = {} THEN <<>>
                    ELSE SubSeq(cleaned, 1, CHOOSE i \in kept : \A k \in kept : k <= i)
    IN IF starts # {}
       THEN EnsureTextNewline(SubSeq(current_text, 1, first - 1) \o feedback_block
                              \o SubSeq(current_text, last + 1, n))
       ELSE IF stripped # <<>>
       THEN EnsureTextNewline(stripped \o <<"\n", "\n">> \o feedback_block)
       ELSE EnsureTextNewline(feedback_block)

\* _render_feedback_block: the markers around the fixed policy lines and
\* the bullet lines of the themes.
RenderFeedbackBlock(focus_themes) == <<"S", "\n", focus_themes, "\n", "E">>

NoPolicy ==
    [text |-> <<>>, focus_themes |-> "themes", applied |-> 0, original |-> <<>>, once |-> <<>>]

IdlePolicy == pol = NoPolicy

(***************************************************************************)
(* Mutator.propose.  The response of the external call is modelled by the  *)
(* JSON values extract_json_payload finds in it, the whole text first and  *)
(* its fenced blocks after it; the value of a key is <<"absent">>,         *)
(* <<"null">> or <<"str", characters>>.  Paths have no backslashes.        *)
(***************************************************************************)
\* str(raw_operation.get(key, "")).strip()
StrField(value) ==
    Strip(IF value[1] = "absent" THEN <<>>
          ELSE IF value[1] = "null" THEN <<"N", "o", "n", "e">>
          ELSE value[2])

CoerceOperationsPayload(payload) ==
    IF payload.is_list THEN SelectSeq(payload.operations, LAMBDA item : item.is_dict) ELSE <<>>

\* _extract_mutation_payload: the first object with a non-empty operations
\* list, else the first object, else None (<<>>).
ExtractMutationPayload(values) ==
    LET candidates == SelectSeq(values, LAMBDA v : v.is_dict)
        with_operations == SelectSeq(candidates, LAMBDA c : CoerceOperationsPayload(c) # <<>>)
    IN IF with_operations # <<>> THEN <<with_operations[1]>>
       ELSE IF candidates # <<>> THEN <<candidates[1]>>
       ELSE <<>>

\* path.lower() of a component; "SKILL.md" is the only one with capitals.
Lower(name) == IF name = "SKILL.md" THEN "skill.md" ELSE name

EndsWithMd(path) ==
    path # <<>> /\ Lower(path[Len(path)]) \in {"skill.md", "g.md", "n.md", "x.md", "guide.md"}

\* the first element of a sequence that satisfies Ok, as <<element>>.
FirstWhere(seq, Ok(_)) ==
    LET hits == {i \in 1..Len(seq) : Ok(seq[i])}
    IN IF hits = {} THEN <<>> ELSE <<seq[CHOOSE i \in hits : \A j \in hits : i <= j]>>

SelectFallbackTargetPath(skill_paths, allow_paths, deny_paths) ==
    LET allow == {allow_paths[i] : i \in 1..Len(allow_paths)}
        deny == {deny_paths[i] : i \in 1..Len(deny_paths)}
        Usable(candidate) == PrefixMatch(candidate, allow) /\ ~PrefixMatch(candidate, deny)
        preferred_references ==
            SelectSeq(skill_paths, LAMBDA path :
                /\ \E i \in 2..(Len(path) - 1) : Lower(path[i]) = "references"
                /\ EndsWithMd(path))
        preferred_non_skill ==
            SelectSeq(skill_paths, LAMBDA path :
                EndsWithMd(path) /\ ~(Len(path) >= 2 /\ Lower(path[Len(path)]) = "skill.md"))
        \* the order of fallback_order; a repeated candidate is tested twice
        \* with the same outcome.
        fallback_order == preferred_references \o preferred_non_skill \o skill_paths
        from_skills == FirstWhere(fallback_order, Usable)
        FromPrefix(prefix) ==
            IF EndsWithMd(prefix) THEN ~PrefixMatch(prefix, deny)
            ELSE Usable(Append(prefix, "SKILL.md"))
        from_allow == FirstWhere(allow_paths, FromPrefix)
    IN IF from_skills # <<>> THEN from_skills
       ELSE IF from_allow = <<>> THEN <<>>
       ELSE IF EndsWithMd(from_allow[1]) THEN from_allow
       ELSE <<Append(from_allow[1], "SKILL.md")>>

\* _build_deterministic_fallback: one write_file of the target path (its
\* content is the upserted feedback block), or None without a target.
BuildDeterministicFallback(input, reason) ==
    LET target_path == SelectFallbackTargetPath(input.skill_paths, input.allow_paths,
                                                input.deny_paths)
    IN IF target_path = <<>> THEN <<>>
       ELSE <<[deterministic_fallback |-> TRUE, fallback_reason |-> reason,
               operations |-> <<[op |-> <<"write_file">>, path |-> target_path[1]]>>]>>

\* the operations propose keeps from a payload.
UsableOperations(payload) ==
    LET parsed == [i \in 1..Len(CoerceOperationsPayload(payload)) |->
                      [op |-> StrField(CoerceOperationsPayload(payload)[i].op),
                       path |-> StrField(CoerceOperationsPayload(payload)[i].path)]]
    IN SelectSeq(parsed, LAMBDA operation : operation.op # <<>> /\ operation.path # <<>>)

\* Mutator.propose: None is <<>>, a proposal is <<proposal>>.  The repair
\* call is made only when the first response holds no JSON object, and
\* answers nothing without a session id.
Propose(input) ==
    IF ~input.enabled THEN <<>>
    ELSE LET first == ExtractMutationPayload(input.response)
             repaired_payload ==
                 IF first = <<>> /\ input.session
                 THEN ExtractMutationPayload(input.repair) ELSE <<>>
             payload == IF first # <<>> THEN first ELSE repaired_payload
         IN IF payload = <<>> THEN BuildDeterministicFallback(input, "mutator_non_json")
            ELSE LET operations == UsableOperations(payload[1])
                 IN IF operations = <<>>
                    THEN BuildDeterministicFallback(input, "empty_operations")
                    ELSE <<[deterministic_fallback |-> FALSE, fallback_reason |-> "",
                            operations |-> SubSeq(operations, 1, Min(Len(operations), 3))]>>

NoPropose ==
    [enabled |-> FALSE, response |-> <<>>, session |-> FALSE, repair |-> <<>>,
     skill_paths |-> <<>>, allow_paths |-> <<>>, deny_paths |-> <<>>,
     pc |-> "idle", result |-> <<>>]

IdlePropose == prp = NoPropose

\* an external call not yet made: the control thread, the heartbeat thread,
\* the threading.Event and the progress events recorded so far.
NoBeat ==
    [pc |-> "idle", hpc |-> "none", stop_event |-> FALSE, events |-> <<>>,
     timeout_seconds |-> 0, callback |-> FALSE, join_timed_out |-> FALSE]

IdleBeat == hb = NoBeat

\* _run_with_provider_retry not yet called: its arguments, its locals, the
\* runs of the agent and the seconds slept between them.
NoRetry ==
    [pc |-> "idle", session_id |-> <<>>, title |-> <<>>, active_session |-> <<>>,
     active_title |-> <<>>, attempt |-> 0, runs |-> <<>>, sent |-> <<>>, waits |-> <<>>]

IdleRetry == rty = NoRetry

\* _evaluate_snapshot not yet called: the hydration configuration of the
\* run, the result of the scenario at hand, what _objective_metrics reads of
\* the results appended so far, and its rates (each rate a count over the
\* number of results).
NoSnapshot ==
    [pc |-> "idle", cfg |-> NoInput.cfg, result |-> NoResult, results |-> <<>>,
     metrics |-> [hard_count |-> 0, provider_blocked_count |-> 0, total |-> 0]]

IdleSnapshot == snp = NoSnapshot

IdleCalls == IdlePropose /\ IdleBeat /\ IdleRetry /\ IdleSnapshot

IdleMutator ==
    /\ files = Workspace(NoFile).files
    /\ dirs = Workspace(NoFile).dirs
    /\ linesep = <<"LF">>
    /\ wlog = {}
    /\ proposal = <<>>
    /\ tx = EmptyTx
    /\ mpc = "idle"
    /\ pre = Disk
    /\ post = Disk
    /\ nroll = 0
    /\ nexec = 0

(***************************************************************************)
(* The Decision Engine: _build_objective_progress, _decide and             *)
(* _decide_degraded.  Scores and dimension means are in tenths of a point, *)
(* rates in percent, the failure-alignment score in hundredths; on these   *)
(* grids the 1e-9 slack of the rate comparisons changes no outcome.        *)
(***************************************************************************)
CoreDimensionMetrics == {"diachronic_mean", "synchronic_mean", "skill_alignment_mean"}

\* An EvaluationSnapshot with the objective metrics of its summary.
Snapshot(train, holdout, hard, clean, fallback, blocked, confidence, dia, syn, skill, policy) ==
    [train_score |-> train, holdout_score |-> holdout, hard_pass_rate |-> hard,
     validate_clean_rate |-> clean, fallback_usage_rate |-> fallback,
     provider_blocked_rate |-> blocked, validation_confidence_mean |-> confidence,
     diachronic_mean |-> dia, synchronic_mean |-> syn, skill_alignment_mean |-> skill,
     skill_policy_score |-> policy,
     memory_correctness_score |-> 6 * hard + 4 * clean]

BuildObjectiveProgress(b, c, cfg) ==
    LET delta(m) == c[m] - b[m]
        dimension_floor_violations ==
            {m \in CoreDimensionMetrics : delta(m) < -cfg.max_dimension_regression}
        dimension_gain_metrics ==
            {m \in CoreDimensionMetrics : delta(m) >= cfg.min_dimension_improvement}
        fallback_delta == delta("fallback_usage_rate")
        fallback_gain == fallback_delta <= -cfg.min_fallback_reduction
        provider_block_delta == delta("provider_blocked_rate")
        provider_block_gain == provider_block_delta < 0
        correctness_gain == delta("memory_correctness_score") >= cfg.min_dimension_improvement
        policy_gain == /\ delta("skill_policy_score") >= cfg.min_dimension_improvement
                       /\ c.fallback_usage_rate < 100
                       /\ c.provider_blocked_rate <= 0
    IN  [dimension_floor_ok |-> dimension_floor_violations = {},
         fallback_gate_ok |-> fallback_delta <= cfg.max_fallback_increase,
         provider_block_gate_ok |-> provider_block_delta <= 0,
         has_objective_gain |-> \/ dimension_gain_metrics # {}
                                \/ fallback_gain
                                \/ provider_block_gain
                                \/ correctness_gain
                                \/ policy_gain]

Rejected(reason) == [accepted |-> FALSE, reason |-> reason, provisional |-> FALSE]

Accepted(reason) == [accepted |-> TRUE, reason |-> reason, provisional |-> FALSE]

\* a Decision of the degraded mode left unmarked.
Unmarked(d) == d

Provisional(d) == [d EXCEPT !.provisional = TRUE]

RequiredDeltaRuntimeOnly(a) == a.cfg.runtime_min_improvement

RequiredDelta(a) ==
    IF a.runtime_touched THEN a.cfg.runtime_min_improvement ELSE a.cfg.require_improvement

\* The last three returns of _decide: the score improvement, then the
\* objective gain, else the rejection.
DecideImprovement(a, p) ==
    IF \/ a.candidate.train_score - a.baseline.train_score >= RequiredDelta(a)
       \/ a.candidate.holdout_score - a.baseline.holdout_score >= RequiredDelta(a)
    THEN Accepted("candidate improved score while preserving hard gates")
    ELSE IF p.has_objective_gain
    THEN Accepted("candidate improved core objective metrics while preserving hard gates")
    ELSE Rejected("candidate did not improve enough")

\* _decide without its holdout check.
DecideNormalNoHoldoutGate(a, p) ==
    IF ~a.candidate_delta.has_required_evolution_diff
    THEN Rejected("candidate has no meaningful skill/runtime diff")
    ELSE IF ~p.fallback_gate_ok
    THEN Rejected("candidate increased fallback dependency")
    ELSE IF ~p.provider_block_gate_ok
    THEN Rejected("candidate increased provider-blocked executions")
    ELSE IF ~p.dimension_floor_ok
    THEN Rejected("candidate regressed core complexity dimensions")
    ELSE IF a.candidate.hard_pass_rate < 100
    THEN Rejected("candidate failed hard memory integrity gates")
    ELSE IF a.cfg.require_objective_gain /\ ~p.has_objective_gain
    THEN Rejected("candidate did not improve core objective metrics")
    ELSE DecideImprovement(a, p)

\* _decide with the holdout check moved in front of the hard-pass check.
DecideNormalHoldoutFirst(a, p) ==
    IF ~a.candidate_delta.has_required_evolution_diff
    THEN Rejected("candidate has no meaningful skill/runtime diff")
    ELSE IF ~p.fallback_gate_ok
    THEN Rejected("candidate increased fallback dependency")
    ELSE IF ~p.provider_block_gate_ok
    THEN Rejected("candidate increased provider-blocked executions")
    ELSE IF ~p.dimension_floor_ok
    THEN Rejected("candidate regressed core complexity dimensions")
    ELSE IF a.candidate.holdout_score <
            a.baseline.holdout_score - a.cfg.holdout_regression_tolerance
    THEN Rejected("candidate regressed holdout score")
    ELSE IF a.candidate.hard_pass_rate < 100
    THEN Rejected("candidate failed hard memory integrity gates")
    ELSE IF a.cfg.require_objective_gain /\ ~p.has_objective_gain
    THEN Rejected("candidate did not improve core objective metrics")
    ELSE DecideImprovement(a, p)

\* _decide after the degraded-mode branch.
DecideNormal(a, p) ==
    IF ~a.candidate_delta.has_required_evolution_diff
    THEN Rejected("candidate has no meaningful skill/runtime diff")
    ELSE IF ~p.fallback_gate_ok
    THEN Rejected("candidate increased fallback dependency")
    ELSE IF ~p.provider_block_gate_ok
    THEN Rejected("candidate increased provider-blocked executions")
    ELSE IF ~p.dimension_floor_ok
    THEN Rejected("candidate regressed core complexity dimensions")
    ELSE IF a.candidate.hard_pass_rate < 100
    THEN Rejected("candidate failed hard memory integrity gates")
    ELSE IF a.candidate.holdout_score <
            a.baseline.holdout_score - a.cfg.holdout_regression_tolerance
    THEN Rejected("candidate regressed holdout score")
    ELSE IF a.cfg.require_objective_gain /\ ~p.has_objective_gain
    THEN Rejected("candidate did not improve core objective metrics")
    ELSE DecideImprovement(a, p)

\* _decide_degraded without the budget test.
DecideDegradedNoBudget(a, p) ==
    Provisional(
        IF ~a.candidate_delta.has_required_evolution_diff
        THEN Rejected("candidate has no meaningful skill/runtime diff")
        ELSE IF a.candidate_delta.required_hydration_paths_touched <= 0
        THEN Rejected("candidate did not modify actively hydrated skill surfaces")
        ELSE IF a.candidate_delta.failure_alignment_score < a.cfg.min_failure_alignment_score
        THEN Rejected("candidate did not align sufficiently with observed failure clusters")
        ELSE IF ~p.fallback_gate_ok
        THEN Rejected("candidate increased fallback dependency")
        ELSE IF ~p.provider_block_gate_ok
        THEN Rejected("candidate increased provider-blocked executions")
        ELSE IF ~p.dimension_floor_ok
        THEN Rejected("candidate regressed core complexity dimensions")
        ELSE IF /\ a.cfg.require_objective_gain
                /\ ~(\/ p.has_objective_gain
                     \/ a.candidate_delta.failure_alignment_score >=
                            a.cfg.min_failure_alignment_score)
        THEN Rejected("candidate did not improve objective signals in degraded mode")
        ELSE Accepted("provisional acceptance under provider-blocked degraded mode"))

DecideDegraded(a, p) ==
    Provisional(
        IF a.provisional_accepts >= a.cfg.max_provisional_accepts_per_run
        THEN Rejected("provisional acceptance budget exhausted for this run")
        ELSE IF ~a.candidate_delta.has_required_evolution_diff
        THEN Rejected("candidate has no meaningful skill/runtime diff")
        ELSE IF a.candidate_delta.required_hydration_paths_touched <= 0
        THEN Rejected("candidate did not modify actively hydrated skill surfaces")
        ELSE IF a.candidate_delta.failure_alignment_score < a.cfg.min_failure_alignment_score
        THEN Rejected("candidate did not align sufficiently with observed failure clusters")
        ELSE IF ~p.fallback_gate_ok
        THEN Rejected("candidate increased fallback dependency")
        ELSE IF ~p.provider_block_gate_ok
        THEN Rejected("candidate increased provider-blocked executions")
        ELSE IF ~p.dimension_floor_ok
        THEN Rejected("candidate regressed core complexity dimensions")
        ELSE IF /\ a.cfg.require_objective_gain
                /\ ~(\/ p.has_objective_gain
                     \/ a.candidate_delta.failure_alignment_score >=
                            a.cfg.min_failure_alignment_score)
        THEN Rejected("candidate did not improve objective signals in degraded mode")
        ELSE Accepted("provisional acceptance under provider-blocked degraded mode"))

Decide(a) ==
    LET p == BuildObjectiveProgress(a.baseline, a.candidate, a.cfg) IN
    IF a.degraded_provider_mode /\ a.cfg.allow_provisional_acceptance
    THEN DecideDegraded(a, p)
    ELSE DecideNormal(a, p)

(***************************************************************************)
(* Inputs of _decide.                                                      *)
(***************************************************************************)
\* MutationConfig, RuntimeLaneConfig and ObjectiveGateConfig defaults in the
\* units above, with a provisional budget of one accept per run.
DefaultGates ==
    [require_improvement |-> 5, holdout_regression_tolerance |-> 0,
     runtime_min_improvement |-> 10,
     min_dimension_improvement |-> 5, max_dimension_regression |-> 10,
     min_fallback_reduction |-> 5, max_fallback_increase |-> 0,
     require_objective_gain |-> TRUE, allow_provisional_acceptance |-> TRUE,
     max_provisional_accepts_per_run |-> 1, min_failure_alignment_score |-> 8]

GateConfigs ==
    { [DefaultGates EXCEPT !.holdout_regression_tolerance = tol,
                           !.max_fallback_increase = inc,
                           !.require_objective_gain = gain,
                           !.allow_provisional_acceptance = allow] :
         tol \in {0, 10}, inc \in {0, 10}, gain \in BOOLEAN, allow \in BOOLEAN }

\* A snapshot is possible only if the results that failed the hard pass (all
\* provider-blocked ones among them) have fitness 0.
Feasible(s) ==
    /\ s.provider_blocked_rate <= 100 - s.hard_pass_rate
    /\ Min(s.train_score, s.holdout_score) <= 10 * s.hard_pass_rate

CleanBaseline == Snapshot(800, 800, 100, 90, 10, 0, 100, 500, 500, 500, 600)

BlockedBaseline == Snapshot(800, 800, 90, 90, 10, 10, 90, 500, 500, 500, 600)

CandidateSnapshots ==
    { s \in { Snapshot(train, holdout, rates[1], extra[1], fallback, rates[2], 90,
                       dims[1], dims[2], dims[3], extra[2]) :
                 train \in {800, 805, 810}, holdout \in {790, 800, 810},
                 rates \in {<<100, 0>>, <<90, 0>>, <<90, 10>>},
                 fallback \in {0, 10, 20},
                 dims \in {<<500, 500, 500>>, <<485, 500, 500>>, <<500, 500, 485>>,
                           <<500, 505, 500>>},
                 extra \in {<<90, 600>>, <<100, 600>>, <<90, 700>>} } :
        Feasible(s) }

CandidateDeltas ==
    { [has_required_evolution_diff |-> d[1], required_hydration_paths_touched |-> d[2],
       failure_alignment_score |-> d[3]] :
         d \in {<<FALSE, 0, 0>>, <<TRUE, 0, 0>>, <<TRUE, 1, 0>>, <<TRUE, 1, 50>>} }

\* The calls tried: every candidate against the clean baseline, in normal
\* mode with two candidate deltas and in degraded mode with all of them; the
\* blocked baseline with the default configuration.
DecideInputs ==
    { a \in [baseline : {CleanBaseline, BlockedBaseline}, candidate : CandidateSnapshots,
             runtime_touched : BOOLEAN, candidate_delta : CandidateDeltas,
             degraded_provider_mode : BOOLEAN, provisional_accepts : {0, 1},
             cfg : GateConfigs] :
        /\ (a.degraded_provider_mode /\ a.cfg.allow_provisional_acceptance)
              \/ (/\ a.provisional_accepts = 0
                  /\ a.candidate_delta.failure_alignment_score =
                         50 * a.candidate_delta.required_hydration_paths_touched
                  /\ a.candidate_delta.required_hydration_paths_touched =
                         Bit(a.candidate_delta.has_required_evolution_diff))
        /\ a.degraded_provider_mode \/ a.cfg.allow_provisional_acceptance
        /\ (a.baseline = BlockedBaseline) =>
              /\ a.cfg \in {DefaultGates, [DefaultGates EXCEPT !.require_objective_gain = FALSE]}
              /\ a.candidate.diachronic_mean = 500
              /\ a.candidate.synchronic_mean = 500
              /\ a.candidate.skill_alignment_mean = 500
              /\ a.candidate.skill_policy_score = 600 }

NoDecideInput == CHOOSE a \in DecideInputs : TRUE

IdleDecide == din = NoDecideInput /\ dres = Rejected("") /\ dpc = "idle"

(***************************************************************************)
(* The configuration and the locals of EvolutionOrchestrator.run.          *)
(***************************************************************************)
SkillPaths == {SkillMd}

RuntimePaths == {RuntimeScript}

DefaultRun ==
    [continuous |-> FALSE, max_epochs |-> MaxEpochs, max_stagnant_epochs |-> 2,
     max_wall_seconds |-> 60, mutation_off |-> FALSE,
     runtime_lane_enabled |-> TRUE, force_full_evaluation |-> TRUE,
     stop_when_provider_blocked |-> TRUE, continue_on_provider_blocked |-> TRUE,
     provider_blocked_stop_rate |-> 100, provider_blocked_grace_snapshots |-> 1,
     provisional_confirm_min_validation_confidence |-> 85,
     provisional_confirm_min_hard_pass_rate |-> 100,
     provisional_confirm_max_provider_blocked_rate |-> 0,
     gates |-> DefaultGates]

RunConfigs ==
    { DefaultRun,
      [DefaultRun EXCEPT !.mutation_off = TRUE],
      [DefaultRun EXCEPT !.continuous = TRUE],
      [DefaultRun EXCEPT !.max_epochs = 0],
      [DefaultRun EXCEPT !.continue_on_provider_blocked = FALSE,
                         !.provider_blocked_grace_snapshots = 0],
      [DefaultRun EXCEPT !.stop_when_provider_blocked = FALSE,
                         !.mutation_off = TRUE] }

NoDelta ==
    [has_required_evolution_diff |-> FALSE, required_hydration_paths_touched |-> 0,
     failure_alignment_score |-> 0]

\* The locals of run as they are set before the loop.
RunStart ==
    [epoch |-> 1, stagnant_epochs |-> 0, stop_reason |-> "",
     provider_blocked_streak |-> 0, provider_degraded_mode |-> FALSE,
     provisional_accepts |-> 0, provisional_pending |-> FALSE,
     provisional_confirmations |-> 0,
     active_snapshot |-> CleanBaseline, control_for_decision |-> CleanBaseline,
     runtime_touched |-> FALSE, candidate_delta |-> NoDelta, event |-> "run_start",
     candidate_bank |-> <<>>, stop_file |-> FALSE, wall_elapsed |-> FALSE]

\* BatchConfig as it is constructed.
BatchDefaults == [train_batch_size |-> 2, holdout_batch_size |-> 1, random_seed |-> 7]

\* The merged scenario pools of an epoch (synthesis disabled: the static
\* pools), each scenario its id and its difficulty.
TrainPool ==
    << [id |-> "t1", difficulty |-> 1], [id |-> "t2", difficulty |-> 1],
       [id |-> "t3", difficulty |-> 2] >>

HoldoutPool == << [id |-> "h1", difficulty |-> 1], [id |-> "h2", difficulty |-> 1] >>

\* _select_batches: the train and the holdout list of an evaluation pass.
SelectBatches(epoch, train_pool, holdout_pool, force_full) ==
    IF force_full THEN <<train_pool, holdout_pool>>
    ELSE << SelectBatch(train_pool, BatchDefaults.train_batch_size, epoch,
                        BatchDefaults.random_seed, TRUE, 0),
            SelectBatch(holdout_pool, BatchDefaults.holdout_batch_size, epoch + 97,
                        BatchDefaults.random_seed, FALSE, 0) >>

NoBatches == << <<>>, <<>> >>

\* The number of provider-blocked snapshots in a row at the end of the
\* series of the baseline snapshot and the control snapshots, from that
\* number before the latest snapshot.
BlockedRun(before, cfg, snapshot) ==
    IF cfg.stop_when_provider_blocked
       /\ snapshot.provider_blocked_rate >= cfg.provider_blocked_stop_rate
    THEN before + 1 ELSE 0

\* the candidate pass over the control batches whatever the decision
\* batches are.
CandidateOverControl(decision_batches, control_batches) == control_batches

\* the train_batch and holdout_batch arguments of the candidate pass.
CandidateBatches(decision_batches, control_batches) == decision_batches

NoObservation ==
    [label |-> "", nexec |-> 0, errors |-> <<>>, wrote |-> {}, files |-> <<>>,
     start |-> <<>>, open |-> 0, marker |-> FALSE,
     control_batches |-> NoBatches, decision_batches |-> NoBatches,
     baseline_over |-> NoBatches, candidate_over |-> NoBatches,
     blocked_run |-> 0]

IdleOrch == ocfg = DefaultRun /\ run = RunStart /\ opc = "idle" /\ obs = NoObservation

(***************************************************************************)
(* One call of _decide.                                                    *)
(***************************************************************************)
InitDecide ==
    /\ din \in DecideInputs
    /\ dres = Rejected("")
    /\ dpc = "called"
    /\ IdleMutator
    /\ IdleScore
    /\ IdleOrch
    /\ IdleGuard
    /\ IdleBatch
    /\ IdlePolicy
    /\ IdleCalls

DecideCall ==
    /\ dpc = "called"
    /\ dres' = Decide(din)
    /\ dpc' = "decided"
    /\ UNCHANGED <<din, notDecVars>>

NextDecide == DecideCall

SpecDecide == InitDecide /\ [][NextDecide]_vars

(***************************************************************************)
(* Claims about normal-mode decisions (checked under SpecDecide).          *)
(***************************************************************************)
NormalMode == ~(din.degraded_provider_mode /\ din.cfg.allow_provisional_acceptance)

Gate1 == din.candidate_delta.has_required_evolution_diff

Gate2 ==
    din.candidate.fallback_usage_rate - din.baseline.fallback_usage_rate
        <= din.cfg.max_fallback_increase

Gate3 == din.candidate.provider_blocked_rate <= din.baseline.provider_blocked_rate

Gate4 ==
    \A m \in {"diachronic_mean", "synchronic_mean", "skill_alignment_mean"} :
        din.candidate[m] >= din.baseline[m] - din.cfg.max_dimension_regression

Gate5 == din.candidate.hard_pass_rate = 100

Gate6 ==
    din.candidate.holdout_score >=
        din.baseline.holdout_score - din.cfg.holdout_regression_tolerance

RejectedWith(reason) == ~dres.accepted /\ dres.reason = reason

ClaimedDelta ==
    IF din.runtime_touched THEN din.cfg.runtime_min_improvement
    ELSE din.cfg.require_improvement

Improved ==
    \/ din.candidate.train_score - din.baseline.train_score >= ClaimedDelta
    \/ din.candidate.holdout_score - din.baseline.holdout_score >= ClaimedDelta

\* C8: a normal-mode Decision is accepted only if the candidate has an
\* eligible meaningful changed file, the fallback-usage rate did not rise
\* beyond the tolerance, the provider-blocked rate did not rise, no core
\* dimension mean regressed beyond the floor, the candidate hard-pass rate is
\* 1.0 and the candidate holdout score is at least the baseline holdout score
\* minus the regression tolerance.
C8_AcceptedOnlyThroughGates ==
    (dpc = "decided" /\ NormalMode /\ dres.accepted) =>
        (Gate1 /\ Gate2 /\ Gate3 /\ Gate4 /\ Gate5 /\ Gate6)

\* C8 witness: a normal-mode acceptance that used both tolerances: the
\* fallback rate rose and the holdout score fell, each within its tolerance.
C8_Witness ==
    /\ dpc = "decided" /\ NormalMode /\ dres.accepted
    /\ din.candidate.fallback_usage_rate > din.baseline.fallback_usage_rate
    /\ din.candidate.holdout_score < din.baseline.holdout_score

\* C9: the normal-mode gates are checked in the order no-op diff, fallback
\* increase, provider-blocked increase, core-dimension floor, hard-pass rate,
\* holdout regression, and a Decision that fails one of them is rejected with
\* the reason of the first gate that fails in that order.
C9_FirstFailingGateReason ==
    (dpc = "decided" /\ NormalMode) =>
        /\ ~Gate1 => RejectedWith("candidate has no meaningful skill/runtime diff")
        /\ (Gate1 /\ ~Gate2) => RejectedWith("candidate increased fallback dependency")
        /\ (Gate1 /\ Gate2 /\ ~Gate3) =>
              RejectedWith("candidate increased provider-blocked executions")
        /\ (Gate1 /\ Gate2 /\ Gate3 /\ ~Gate4) =>
              RejectedWith("candidate regressed core complexity dimensions")
        /\ (Gate1 /\ Gate2 /\ Gate3 /\ Gate4 /\ ~Gate5) =>
              RejectedWith("candidate failed hard memory integrity gates")
        /\ (Gate1 /\ Gate2 /\ Gate3 /\ Gate4 /\ Gate5 /\ ~Gate6) =>
              RejectedWith("candidate regressed holdout score")

\* C9 witness: baseline holdout 80, candidate holdout 79, tolerance 0, gates
\* 1-5 passing: rejected for the holdout regression.
C9_Witness ==
    /\ dpc = "decided" /\ NormalMode
    /\ Gate1 /\ Gate2 /\ Gate3 /\ Gate4 /\ Gate5
    /\ din.baseline.holdout_score = 800
    /\ din.candidate.holdout_score = 790
    /\ din.cfg.holdout_regression_tolerance = 0
    /\ RejectedWith("candidate regressed holdout score")

\* C10 as stated: in normal mode, when gates 1-6 pass and the train or the
\* holdout score improved by at least the required delta, the Decision is
\* accepted.
C10_ImprovedIsAccepted ==
    (dpc = "decided" /\ NormalMode /\ Improved
     /\ Gate1 /\ Gate2 /\ Gate3 /\ Gate4 /\ Gate5 /\ Gate6) =>
        dres.accepted

\* C10 amended: in normal mode, when gates 1-6 pass, the train or the holdout
\* score improved by at least the required delta, and either
\* require_objective_gain is off or the objective progress shows a gain, the
\* Decision is accepted.
C10_ImprovedWithGainIsAccepted ==
    (dpc = "decided" /\ NormalMode /\ Improved
     /\ Gate1 /\ Gate2 /\ Gate3 /\ Gate4 /\ Gate5 /\ Gate6
     /\ (~din.cfg.require_objective_gain
         \/ BuildObjectiveProgress(din.baseline, din.candidate, din.cfg).has_objective_gain)) =>
        dres.accepted

\* C10 witness: an ordinary mutation accepted for a train improvement of
\* exactly mutation.require_improvement, with no objective gain.
C10_Witness ==
    /\ dpc = "decided" /\ NormalMode /\ ~din.runtime_touched
    /\ din.candidate.train_score - din.baseline.train_score = din.cfg.require_improvement
    /\ din.candidate.holdout_score <= din.baseline.holdout_score
    /\ ~BuildObjectiveProgress(din.baseline, din.candidate, din.cfg).has_objective_gain
    /\ dres = Accepted("candidate improved score while preserving hard gates")

(***************************************************************************)
(* Claims about degraded-mode decisions (checked under SpecDecide).        *)
(***************************************************************************)
\* C11: every accepted Decision, the provisional acceptances of degraded
\* mode included, has candidate hard-pass rate 1.0 and a candidate holdout
\* score of at least the baseline holdout score minus the regression
\* tolerance.
C11_AcceptedKeepsHardGates ==
    (dpc = "decided" /\ dres.accepted) => (Gate5 /\ Gate6)

InitScore ==
    /\ sin \in ScoreInputs
    /\ sres = NoResult
    /\ spc = "executed"
    /\ IdleMutator
    /\ IdleDecide
    /\ IdleOrch
    /\ IdleGuard
    /\ IdleBatch
    /\ IdlePolicy
    /\ IdleCalls

Score ==
    /\ spc = "executed"
    /\ sres' = ScoreExecution(sin)
    /\ spc' = "scored"
    /\ UNCHANGED <<sin, notScoreVars>>

EnterSnapshot ==
    /\ spc = "scored"
    /\ \E workspace_delta \in BOOLEAN :
          /\ sres' = DeltaOverride(sres, workspace_delta)
          /\ spc' = IF workspace_delta THEN "appended_delta" ELSE "appended"
    /\ UNCHANGED <<sin, notScoreVars>>

NextScore == Score \/ EnterSnapshot

SpecScore == InitScore /\ [][NextScore]_vars

\* C7: every ScenarioResult, as score_execution returns it and as it is
\* appended to the results of a snapshot after the workspace-delta override,
\* has fitness 0 when hard_pass is false.
C7_NoHardPassNoFitness ==
    (spc \in {"scored", "appended", "appended_delta"}) =>
        (~sres.hard_pass => sres.fitness = 0)

\* C7 witness: score_execution returned a passing result with positive
\* fitness and the workspace-delta override then failed it.
C7_Witness ==
    /\ spc = "appended_delta"
    /\ ScoreExecution(sin).hard_pass
    /\ ScoreExecution(sin).fitness > 0
    /\ ~sres.hard_pass

\* C21: a ScenarioResult of score_execution has hard_pass true only if the
\* probe's hard-pass flag is true and the judge payload handed to
\* score_execution has an empty hard_failures list.
C21_HardPassNeedsNoJudgeFailure ==
    (spc = "scored" /\ sres.hard_pass) =>
        (ProbeHardPass(sin.probe) /\ sin.judge.hard_failures = <<>>)

\* what holds instead: a hard pass needs the probe's flag and an empty
\* hard_failures list after score_execution cleared the list of a payload
\* it took for unreliable.
C21_HardPassNeedsNoKeptFailure ==
    (spc = "scored" /\ sres.hard_pass) =>
        (ProbeHardPass(sin.probe) /\ sres.hard_failures = <<>>)

\* the required skill reads of score_execution's arguments were made.
Hydrated(a) ==
    /\ Len(a.execution.read_paths) >= a.cfg.minimum_reads
    /\ \A r \in a.cfg.required_paths :
          \E i \in 1..Len(a.execution.read_paths) : PathMatches(a.execution.read_paths[i], r)

\* C22: with skill-hydration enforcement and hard-fail-on-missing both on, a
\* ScenarioResult of score_execution has hard_pass true only if the
\* execution read at least minimum_reads paths and every required skill
\* path, whatever the command trace (one with no memoryctl command
\* included).
C22_HardPassNeedsHydration ==
    (spc = "scored" /\ sin.cfg.enforce /\ sin.cfg.hard_fail_missing /\ sres.hard_pass) =>
        Hydrated(sin)

\* C22 holds for the executions that ran at least one memoryctl command.
C22_HydrationWithMemoryctl ==
    (/\ spc = "scored" /\ sin.cfg.enforce /\ sin.cfg.hard_fail_missing /\ sres.hard_pass
     /\ sin.execution.has_memoryctl) =>
        Hydrated(sin)

(***************************************************************************)
(* Calls of select_batch with one set of arguments, between which other    *)
(* code draws from the process-wide generator of the random module.        *)
(***************************************************************************)
\* the pools tried: every pool of at most MaxPool scenarios with
\* difficulties up to MaxPool, and the pool of difficulties 1 to 5.
ScenarioPools ==
    {[i \in 1..Len(ds) |-> [id |-> i, difficulty |-> ds[i]]] :
        ds \in {<<1, 2, 3, 4, 5>>} \cup UNION {[1..n -> 1..MaxPool] : n \in 0..MaxPool}}

InitBatch ==
    /\ \E scenarios \in ScenarioPools, batch_size \in 0..(MaxPool + 1),
          epoch \in 0..(MaxPool + 2), seed \in {7, 42}, curriculum_enabled \in BOOLEAN :
          bat = [NoBatch EXCEPT !.input = [scenarios |-> scenarios, batch_size |-> batch_size,
                                           epoch |-> epoch, seed |-> seed,
                                           curriculum_enabled |-> curriculum_enabled]]
    /\ IdleMutator
    /\ IdleScore
    /\ IdleDecide
    /\ IdleOrch
    /\ IdleGuard
    /\ IdlePolicy
    /\ IdleCalls

\* one call of select_batch; its return value is kept.
CallSelectBatch ==
    /\ Len(bat.results) < 2
    /\ bat' = [bat EXCEPT !.results =
                  Append(@, SelectBatch(bat.input.scenarios, bat.input.batch_size,
                                        bat.input.epoch, bat.input.seed,
                                        bat.input.curriculum_enabled, bat.global_state))]
    /\ UNCHANGED <<mutVars, scoreVars, decVars, orchVars, guardVars, policyVars, callVars>>

\* any other code draws from the process-wide generator.
DrawGlobalRandom ==
    /\ bat.draws < 1
    /\ bat' = [bat EXCEPT !.global_state = (5 * @ + 3) % 16, !.draws = @ + 1]
    /\ UNCHANGED <<mutVars, scoreVars, decVars, orchVars, guardVars, policyVars, callVars>>

NextBatch == CallSelectBatch \/ DrawGlobalRandom

SpecBatch == InitBatch /\ [][NextBatch]_vars

\* C23: two calls of select_batch with the same pool, batch size, epoch,
\* seed and curriculum flag return the same ordered list, whatever was
\* drawn from the process-wide generator before or between them.
C23_SelectBatchDeterministic ==
    Len(bat.results) = 2 => bat.results[1] = bat.results[2]

\* C23 witness: a batch was sampled twice (the pool is larger than the
\* batch) and the process-wide generator was used between the two calls.
C23_Witness ==
    /\ Len(bat.results) = 2
    /\ bat.draws = 1
    /\ bat.input.batch_size > 0
    /\ Len(bat.results[2]) = bat.input.batch_size
    /\ Len(bat.input.scenarios) > bat.input.batch_size
    /\ bat.results[1] # SubSeq(bat.input.scenarios, 1, bat.input.batch_size)

\* the pool select_batch is to draw from.
EligiblePool ==
    LET pool == bat.input.scenarios
        ceilings == {1 + (bat.input.epoch \div 2)} \cup
                    {d \in 1..(MaxPool + 2) : \A i \in 1..Len(pool) : pool[i].difficulty <= d}
        bound == CHOOSE c \in ceilings : \A d \in ceilings : c <= d
        within == {i \in 1..Len(pool) : pool[i].difficulty <= bound}
    IN IF bat.input.curriculum_enabled /\ within # {}
       THEN SelectSeq(pool, LAMBDA s : s.id \in within)
       ELSE pool

\* C24: with curriculum enabled select_batch draws only from the scenarios
\* whose difficulty is at most min(max difficulty in the pool, 1 + epoch //
\* 2), or from the whole pool when no scenario is within that bound; when
\* the requested size is <= 0 or at least the size of that eligible pool,
\* the eligible pool is returned whole and in its order.
C24_CurriculumPool ==
    \A k \in 1..Len(bat.results) :
        LET result == bat.results[k] IN
        /\ \A i \in 1..Len(result) : \E j \in 1..Len(EligiblePool) : result[i] = EligiblePool[j]
        /\ (bat.input.batch_size <= 0 \/ bat.input.batch_size >= Len(EligiblePool))
               => result = EligiblePool

\* C24 witness: the pool of difficulties 1 to 5 at epoch 5 with curriculum
\* enabled gave exactly the scenarios of difficulty at most 3.
C24_Witness ==
    /\ Len(bat.results) >= 1
    /\ Len(bat.input.scenarios) = 5
    /\ bat.input.epoch = 5
    /\ bat.input.curriculum_enabled
    /\ bat.input.batch_size = 0
    /\ bat.results[1] = SubSeq(bat.input.scenarios, 1, 3)

\* the pool select_batch draws from at an epoch: what it returns when asked
\* for every scenario (batch_size 0).
PoolAt(epoch) ==
    LET pool == SelectBatch(bat.input.scenarios, 0, epoch, bat.input.seed,
                            bat.input.curriculum_enabled, bat.global_state)
    IN {pool[i] : i \in 1..Len(pool)}

\* C31: with curriculum enabled the pool select_batch used at its epoch is
\* a subset of the pool it uses for the same scenarios one epoch later.
C31_CurriculumOnlyWidens ==
    (/\ Len(bat.results) >= 1 /\ bat.input.curriculum_enabled /\ bat.input.batch_size = 0) =>
        {bat.results[1][i] : i \in 1..Len(bat.results[1])} \subseteq PoolAt(bat.input.epoch + 1)

\* C31 holds for the pools that have a scenario within the epoch's ceiling
\* (one of difficulty 1 is enough): the whole-pool fallback is not taken.
C31_WidensOnceStaged ==
    (/\ Len(bat.results) >= 1 /\ bat.input.curriculum_enabled /\ bat.input.batch_size = 0
     /\ \E i \in 1..Len(bat.input.scenarios) :
            bat.input.scenarios[i].difficulty <= 1 + (bat.input.epoch \div 2)) =>
        {bat.results[1][i] : i \in 1..Len(bat.results[1])} \subseteq PoolAt(bat.input.epoch + 1)

(***************************************************************************)
(* The deterministic fallback proposed and applied to its target file,     *)
(* repeatedly and with the same failure themes.                            *)
(***************************************************************************)
InitPolicy ==
    /\ \E text \in UNION {[1..n -> {"S", "E", "L", "x", "\n"}] : n \in 0..MaxText},
          focus_themes \in {"themes", "- reduce fallback"} :
          pol = [NoPolicy EXCEPT !.text = text, !.original = text,
                                 !.focus_themes = focus_themes]
    /\ IdleMutator
    /\ IdleScore
    /\ IdleDecide
    /\ IdleOrch
    /\ IdleGuard
    /\ IdleBatch
    /\ IdleCalls

\* _build_deterministic_fallback reads the target file and proposes one
\* write_file of the upserted text; apply writes it.
ApplyFallback ==
    /\ pol.applied < 2
    /\ LET updated_text == UpsertFeedbackBlock(pol.text, RenderFeedbackBlock(pol.focus_themes))
       IN pol' = [pol EXCEPT !.text = updated_text,
                             !.applied = @ + 1,
                             !.once = IF pol.applied = 0 THEN updated_text ELSE @]
    /\ UNCHANGED <<mutVars, scoreVars, decVars, orchVars, guardVars, batchVars, callVars>>

NextPolicy == ApplyFallback

SpecPolicy == InitPolicy /\ [][NextPolicy]_vars

\* C25: upserting the feedback block is idempotent: the target file after
\* the fallback patch was proposed and applied twice with the same failure
\* themes is the file after it was applied once, whatever markers the file
\* held at first.
C25_UpsertIdempotent ==
    pol.applied = 2 => pol.text = pol.once

\* C25 holds for the files in which no start marker lacks an end marker
\* after it.
C25_IdempotentWhenMarkersPaired ==
    (/\ pol.applied = 2
     /\ \A i \in 1..Len(pol.original) :
           pol.original[i] = "S" =>
               \E j \in (i + 1)..Len(pol.original) : pol.original[j] = "E") =>
        pol.text = pol.once

(***************************************************************************)
(* One call of Mutator.propose: the response of the external call, the     *)
(* response of the repair call, the skill paths and the path policy.       *)
(***************************************************************************)
MaxSkillPaths == 2      \* most skill paths configured

\* an operation of the response: a non-object item, or an object whose op
\* and path are missing, null, blank or a word.
RawOperations ==
    {[is_dict |-> FALSE, op |-> <<"absent">>, path |-> <<"absent">>]} \cup
    [is_dict : {TRUE},
     op : {<<"absent">>, <<"null">>, <<"str", <<" ">>>>, <<"str", <<"w">>>>},
     path : {<<"absent">>, <<"null">>, <<"str", <<"p">>>>}]

GoodObject ==
    [is_dict |-> TRUE, is_list |-> TRUE,
     operations |-> <<[is_dict |-> TRUE, op |-> <<"str", <<"w">>>>, path |-> <<"str", <<"p">>>>]>>]

EmptyObject == [is_dict |-> TRUE, is_list |-> TRUE, operations |-> <<>>]

\* a JSON value found in a response: not an object, an object whose
\* operations are not a list, or an object with a list of operations.
JsonValues ==
    {[is_dict |-> FALSE, is_list |-> FALSE, operations |-> <<>>],
     [is_dict |-> TRUE, is_list |-> FALSE, operations |-> <<>>], EmptyObject} \cup
    {[is_dict |-> TRUE, is_list |-> TRUE, operations |-> <<item>>] : item \in RawOperations}

\* responses: nothing parseable, one value, or a value and a fenced block.
Responses ==
    {<<>>} \cup {<<v>> : v \in JsonValues} \cup
    {<<v, w>> : v \in JsonValues, w \in {GoodObject, EmptyObject}}

SkillPathChoices ==
    {<<"skills", "a", "SKILL.md">>, <<"skills", "references", "g.md">>,
     <<"skills", "private", "n.md">>, <<"skills", "..", "private", "x.md">>}

InitPropose ==
    /\ \E enabled \in BOOLEAN, response \in Responses, session \in BOOLEAN,
          repair \in {<<>>, <<GoodObject>>, <<EmptyObject>>},
          skill_paths \in UNION {[1..n -> SkillPathChoices] : n \in 0..MaxSkillPaths},
          allow_paths \in {<<>>, <<<<"skills">>>>, <<<<"docs", "guide.md">>, <<"skills">>>>},
          deny_paths \in {<<>>, <<<<"skills", "private">>>>, <<<<"skills">>>>} :
          prp = [NoPropose EXCEPT !.enabled = enabled, !.response = response,
                                  !.session = session, !.repair = repair,
                                  !.skill_paths = skill_paths, !.allow_paths = allow_paths,
                                  !.deny_paths = deny_paths]
    /\ IdleMutator
    /\ IdleScore
    /\ IdleDecide
    /\ IdleOrch
    /\ IdleGuard
    /\ IdleBatch
    /\ IdlePolicy
    /\ IdleBeat
    /\ IdleRetry
    /\ IdleSnapshot

CallPropose ==
    /\ prp.pc = "idle"
    /\ prp' = [prp EXCEPT !.pc = "returned", !.result = Propose(prp)]
    /\ UNCHANGED <<mutVars, scoreVars, decVars, orchVars, guardVars, batchVars, policyVars,
                   beatVars, retryVars, snapVars>>

NextPropose == CallPropose

SpecPropose == InitPropose /\ [][NextPropose]_vars

\* the response gives propose nothing to use: no JSON object in it nor, a
\* session being there to ask, in the repaired response, or an object
\* without an operation whose op and path are both non-blank strings.
Named(value) == value[1] = "str" /\ Strip(value[2]) # <<>>

ResponseUnusable ==
    LET first == ExtractMutationPayload(prp.response)
        repaired == IF first = <<>> /\ prp.session
                    THEN ExtractMutationPayload(prp.repair) ELSE <<>>
        payload == IF first # <<>> THEN first ELSE repaired
    IN \/ payload = <<>>
       \/ \A i \in 1..Len(CoerceOperationsPayload(payload[1])) :
              ~(/\ Named(CoerceOperationsPayload(payload[1])[i].op)
                /\ Named(CoerceOperationsPayload(payload[1])[i].path))

\* the path policy as apply enforces it: the resolved path is on the
\* allow-list and not on the deny-list.
PolicyAdmits(path) ==
    LET rel == Collapse(<<>>, path)
    IN /\ PrefixMatch(rel, {prp.allow_paths[i] : i \in 1..Len(prp.allow_paths)})
       /\ ~PrefixMatch(rel, {prp.deny_paths[i] : i \in 1..Len(prp.deny_paths)})

IsFallbackProposal(result) ==
    /\ result # <<>>
    /\ result[1].deterministic_fallback
    /\ Len(result[1].operations) = 1
    /\ result[1].operations[1].op = <<"write_file">>
    /\ PolicyAdmits(result[1].operations[1].path)

NoFallbackTarget ==
    SelectFallbackTargetPath(prp.skill_paths, prp.allow_paths, prp.deny_paths) = <<>>

\* C32: with mutation enabled and a response that is missing, holds no JSON
\* object after the repair retry, or holds no operation with both an op and
\* a path, propose returns the deterministic fallback proposal, one
\* write_file of an allow-listed, non-denied path; it returns no proposal
\* only when mutation is disabled or there is no such target path.
C32_UnusableResponseFallsBack ==
    prp.pc = "returned" =>
        /\ (prp.enabled /\ ResponseUnusable /\ ~NoFallbackTarget) => IsFallbackProposal(prp.result)
        /\ prp.result = <<>> => (~prp.enabled \/ NoFallbackTarget)

\* C32 holds when the op and path of every operation are strings or
\* missing and no skill path has a ".." component.
C32_FallsBackOnPlainInput ==
    (/\ prp.pc = "returned"
     /\ \A k \in 1..Len(prp.response) : \A i \in 1..Len(prp.response[k].operations) :
            /\ prp.response[k].operations[i].op[1] # "null"
            /\ prp.response[k].operations[i].path[1] # "null"
     /\ \A k \in 1..Len(prp.skill_paths) : \A i \in 1..Len(prp.skill_paths[k]) :
            prp.skill_paths[k][i] # "..") =>
        /\ (prp.enabled /\ ResponseUnusable /\ ~NoFallbackTarget) => IsFallbackProposal(prp.result)
        /\ prp.result = <<>> => (~prp.enabled \/ NoFallbackTarget)

(***************************************************************************)
(* OpenCodeClient.run_message: the control thread and the heartbeat thread *)
(* it starts.  The two threads share the threading.Event and the progress  *)
(* callback, whose records are appended under a lock, one at a time.       *)
(***************************************************************************)
MaxBeats == 2       \* heartbeat intervals that may elapse during one call

\* _emit_progress: the record is appended when there is a callback.
EmitProgress(h, event) ==
    IF h.callback THEN [h EXCEPT !.events = Append(@, event)] ELSE h

Waits(h) == Len(SelectSeq(h.events, LAMBDA e : e = "opencode_call_wait"))

InitBeat ==
    /\ \E timeout_seconds \in {0, 45, 60}, callback \in BOOLEAN :
          hb = [NoBeat EXCEPT !.timeout_seconds = timeout_seconds, !.callback = callback]
    /\ IdleMutator
    /\ IdleScore
    /\ IdleDecide
    /\ IdleOrch
    /\ IdleGuard
    /\ IdleBatch
    /\ IdlePolicy
    /\ IdlePropose
    /\ IdleRetry
    /\ IdleSnapshot

\* run_message up to run_command: the start event, and the heartbeat
\* thread when there is a positive timeout.
RunMessageStarts ==
    /\ hb.pc = "idle"
    /\ hb' = [EmitProgress(hb, "opencode_call_start") EXCEPT
                 !.pc = "calling",
                 !.hpc = IF hb.timeout_seconds > 0 THEN "waiting" ELSE "none"]
    /\ UNCHANGED <<mutVars, scoreVars, decVars, orchVars, guardVars, batchVars, policyVars,
                   proposeVars, retryVars, snapVars>>

\* run_command returns and the control thread sets the event.
RunCommandReturns ==
    /\ hb.pc = "calling"
    /\ hb' = [hb EXCEPT !.pc = "joining", !.stop_event = TRUE]
    /\ UNCHANGED <<mutVars, scoreVars, decVars, orchVars, guardVars, batchVars, policyVars,
                   proposeVars, retryVars, snapVars>>

\* heartbeat_thread.join(timeout=0.1) returns, the thread having ended or
\* the 0.1 s being over, and the finish event is emitted.
JoinAndFinish ==
    /\ hb.pc = "joining"
    /\ hb' = [EmitProgress(hb, "opencode_call_finish") EXCEPT
                 !.pc = "finished",
                 !.join_timed_out = hb.hpc \in {"waiting", "emitting"}]
    /\ UNCHANGED <<mutVars, scoreVars, decVars, orchVars, guardVars, batchVars, policyVars,
                   proposeVars, retryVars, snapVars>>

\* the output is parsed and run_message returns.
RunMessageReturns ==
    /\ hb.pc = "finished"
    /\ hb' = [hb EXCEPT !.pc = "returned"]
    /\ UNCHANGED <<mutVars, scoreVars, decVars, orchVars, guardVars, batchVars, policyVars,
                   proposeVars, retryVars, snapVars>>

\* stop_event.wait(heartbeat_seconds) times out with the event not set.
HeartbeatTimesOut ==
    /\ hb.hpc = "waiting"
    /\ ~hb.stop_event
    /\ Waits(hb) < MaxBeats
    /\ hb' = [hb EXCEPT !.hpc = "emitting"]
    /\ UNCHANGED <<mutVars, scoreVars, decVars, orchVars, guardVars, batchVars, policyVars,
                   proposeVars, retryVars, snapVars>>

\* the body of the heartbeat loop: the wait event, then the next wait.
HeartbeatEmits ==
    /\ hb.hpc = "emitting"
    /\ hb' = [EmitProgress(hb, "opencode_call_wait") EXCEPT !.hpc = "waiting"]
    /\ UNCHANGED <<mutVars, scoreVars, decVars, orchVars, guardVars, batchVars, policyVars,
                   proposeVars, retryVars, snapVars>>

\* stop_event.wait returns True: the loop and the thread end.
HeartbeatStops ==
    /\ hb.hpc = "waiting"
    /\ hb.stop_event
    /\ hb' = [hb EXCEPT !.hpc = "done"]
    /\ UNCHANGED <<mutVars, scoreVars, decVars, orchVars, guardVars, batchVars, policyVars,
                   proposeVars, retryVars, snapVars>>

NextBeat ==
    \/ RunMessageStarts
    \/ RunCommandReturns
    \/ JoinAndFinish
    \/ RunMessageReturns
    \/ HeartbeatTimesOut
    \/ HeartbeatEmits
    \/ HeartbeatStops

SpecBeat == InitBeat /\ [][NextBeat]_vars

\* no wait event is recorded after the finish event of the call.
NoWaitAfterFinish ==
    \A i \in 1..Len(hb.events) : \A j \in (i + 1)..Len(hb.events) :
        ~(hb.events[i] = "opencode_call_finish" /\ hb.events[j] = "opencode_call_wait")

\* C34: in every interleaving of the control thread and the heartbeat
\* thread no "opencode_call_wait" event is recorded after the call's
\* "opencode_call_finish" event, and no heartbeat thread is still running
\* when run_message returns.
C34_HeartbeatStopsWithCall ==
    /\ NoWaitAfterFinish
    /\ hb.pc = "returned" => hb.hpc \in {"none", "done"}

\* C34 holds for the calls whose heartbeat thread ended within the 0.1 s
\* of the join.
C34_StopsWhenJoinedInTime ==
    (hb.pc \in {"finished", "returned"} /\ ~hb.join_timed_out) =>
        /\ NoWaitAfterFinish
        /\ hb.hpc \in {"none", "done"}

\* what holds in every interleaving: after the event is set the heartbeat
\* thread records at most one more wait event.
C34_AtMostOneLateWait ==
    Len(SelectSeq(hb.events, LAMBDA e : e = "opencode_call_finish")) = 1 =>
        LET at == CHOOSE i \in 1..Len(hb.events) : hb.events[i] = "opencode_call_finish"
        IN Cardinality({j \in (at + 1)..Len(hb.events) :
                           hb.events[j] = "opencode_call_wait"}) <= 1

(***************************************************************************)
(* ScenarioRunner._run_with_provider_retry.  A run of the agent is what    *)
(* the retry loop reads of it: whether a hard or a transient provider      *)
(* error is detected in it, whether it executed a command, its session id. *)
(***************************************************************************)
ProviderRetryAttempts == 3          \* ScenarioRunner.provider_retry_attempts
ProviderRetryBackoffSeconds == 2    \* ScenarioRunner.provider_retry_backoff_seconds

\* a backoff that does not grow with the attempt.
FlatBackoff(attempt) == ProviderRetryBackoffSeconds

\* backoff_seconds = self.provider_retry_backoff_seconds * attempt
BackoffSeconds(attempt) == ProviderRetryBackoffSeconds * attempt

\* attempts = max(1, self.provider_retry_attempts + 1)
Attempts == Max(1, ProviderRetryAttempts + 1)

AgentRuns ==
    [hard : BOOLEAN, transient : BOOLEAN, tool_commands : BOOLEAN,
     session_id : {<<>>, <<"s1">>}]

\* provider_reasons is not empty.
ProviderReasons(r) == r.hard \/ r.transient

InitRetry ==
    /\ \E session_id \in {<<>>, <<"s0">>}, title \in {<<>>, <<"t">>} :
          rty = [NoRetry EXCEPT !.session_id = session_id, !.title = title]
    /\ IdleMutator
    /\ IdleScore
    /\ IdleDecide
    /\ IdleOrch
    /\ IdleGuard
    /\ IdleBatch
    /\ IdlePolicy
    /\ IdlePropose
    /\ IdleBeat
    /\ IdleSnapshot

\* the locals before the loop.
RetryStarts ==
    /\ rty.pc = "idle"
    /\ rty' = [rty EXCEPT !.pc = "call", !.attempt = 1,
                          !.active_session = rty.session_id, !.active_title = rty.title]
    /\ UNCHANGED <<mutVars, scoreVars, decVars, orchVars, guardVars, batchVars, policyVars,
                   proposeVars, beatVars, snapVars>>

\* one iteration of the loop: the run of the agent, then the return or the
\* retry event and the beginning of the sleep.
RetryAttempt ==
    /\ rty.pc = "call"
    /\ \E r \in AgentRuns :
          LET done == \/ ~ProviderReasons(r)
                      \/ r.tool_commands
                      \/ rty.attempt >= Attempts
          IN rty' = [rty EXCEPT
                       !.runs = Append(@, r),
                       !.sent = Append(@, [session_id |-> rty.active_session,
                                           title |-> IF rty.active_session = <<>>
                                                     THEN rty.active_title ELSE <<>>]),
                       !.active_session = IF r.session_id # <<>> THEN r.session_id ELSE @,
                       !.active_title = <<>>,
                       !.waits = IF done THEN @ ELSE Append(@, BackoffSeconds(rty.attempt)),
                       !.pc = IF done THEN "returned" ELSE "sleeping"]
    /\ UNCHANGED <<mutVars, scoreVars, decVars, orchVars, guardVars, batchVars, policyVars,
                   proposeVars, beatVars, snapVars>>

\* time.sleep(backoff_seconds) is over: the next attempt.
BackoffOver ==
    /\ rty.pc = "sleeping"
    /\ rty' = [rty EXCEPT !.pc = "call", !.attempt = @ + 1]
    /\ UNCHANGED <<mutVars, scoreVars, decVars, orchVars, guardVars, batchVars, policyVars,
                   proposeVars, beatVars, snapVars>>

NextRetry == RetryStarts \/ RetryAttempt \/ BackoffOver

SpecRetry == InitRetry /\ [][NextRetry]_vars

\* C36: one call of _run_with_provider_retry runs the agent at most
\* provider_retry_attempts + 1 times; before its attempt k + 1 it has
\* waited backoff_seconds x k, so the waits grow strictly; every run but
\* the last showed a provider error and executed no command, and it
\* returns on the first run without a provider error or with a command (or
\* on the last attempt allowed).
C36_BoundedRetriesGrowingBackoff ==
    /\ Len(rty.runs) <= ProviderRetryAttempts + 1
    /\ \A k \in 1..Len(rty.waits) :
          /\ rty.waits[k] = ProviderRetryBackoffSeconds * k
          /\ k > 1 => rty.waits[k] > rty.waits[k - 1]
    /\ Len(rty.waits) = (IF rty.pc \in {"call", "idle"} THEN Len(rty.runs)
                          ELSE IF rty.pc = "sleeping" THEN Len(rty.runs)
                          ELSE Len(rty.runs) - 1)
    /\ \A k \in 1..Len(rty.runs) :
          (k < Len(rty.runs) \/ rty.pc = "sleeping") =>
              (ProviderReasons(rty.runs[k]) /\ ~rty.runs[k].tool_commands)
    /\ rty.pc = "returned" =>
          LET last == rty.runs[Len(rty.runs)]
          IN \/ ~ProviderReasons(last)
             \/ last.tool_commands
             \/ Len(rty.runs) = ProviderRetryAttempts + 1

\* C36 witness: every attempt allowed was made, with waits of 2, 4 and 6
\* seconds between them.
C36_Witness ==
    /\ rty.pc = "returned"
    /\ Len(rty.runs) = ProviderRetryAttempts + 1
    /\ rty.waits = <<2, 4, 6>>
    /\ ProviderReasons(rty.runs[Len(rty.runs)])

(***************************************************************************)
(* One scenario of _run_partition with its workspace guard: the status     *)
(* before, the execution, the status after, the revert, the score.         *)
(***************************************************************************)
MaxScenarios == 2       \* scenarios the runner executes one after the other

\* what the agent run by runner.execute may do to the worktree: edit the
\* tracked skill, delete the tracked notes, create a file at the root or in
\* a new directory.
AgentEdits ==
    [modify : SUBSET {SkillPath}, delete : SUBSET {NotesPath},
     create : SUBSET {<<"x", "y">>, <<"d", "/", "x">>}]

InitGuard ==
    /\ \E dirty \in BOOLEAN, probe \in Probes :
          gws = [NoGuard EXCEPT
                    !.pc = "scenario",
                    !.tree = IF dirty THEN [GitHead EXCEPT ![SkillPath] = "v1"] ELSE GitHead,
                    !.input = [execution |-> [provider_blocked |-> FALSE,
                                              fallback_only_mode |-> FALSE,
                                              fallback_used |-> FALSE,
                                              has_memoryctl |-> TRUE,
                                              root_targeted |-> TRUE,
                                              root_hint |-> TRUE,
                                              open_lifecycle |-> FALSE,
                                              session_gap |-> FALSE,
                                              read_paths |-> << <<"ws", "/", "skills", "/", "SKILL.md">> >>],
                               probe |-> probe,
                               judge |-> NoInput.judge,
                               cfg |-> [enforce |-> TRUE, hard_fail_missing |-> TRUE,
                                        minimum_reads |-> 1,
                                        required_paths |-> {RequiredSkill}]]]
    /\ IdleMutator
    /\ IdleScore
    /\ IdleDecide
    /\ IdleOrch
    /\ IdleBatch
    /\ IdlePolicy
    /\ IdleCalls

\* before_status is taken, then runner.execute runs the agent.
RunnerExecute ==
    /\ gws.pc = "scenario"
    /\ \E e \in AgentEdits :
          gws' = [gws EXCEPT !.pc = "executed",
                             !.before_status = GitStatusLines(gws.tree),
                             !.input.execution.fallback_only_mode = gws.force_fallback_mode,
                             !.input.execution.fallback_used = gws.force_fallback_mode,
                             !.tree = [p \in (DOMAIN gws.tree \ e.delete) \cup e.create |->
                                          IF p \in e.create \/ p \in e.modify
                                          THEN "agent" ELSE gws.tree[p]]]
    /\ UNCHANGED <<mutVars, scoreVars, decVars, orchVars, batchVars, policyVars, callVars>>

\* the guard with a fallback flag that follows the last scenario only.
GuardWorkspaceClearing ==
    /\ gws.pc = "executed"
    /\ LET workspace_delta == GitStatusLines(gws.tree) \ gws.before_status
       IN gws' = [gws EXCEPT
                    !.pc = "guarded",
                    !.workspace_delta = workspace_delta,
                    !.tree = IF workspace_delta # {}
                             THEN RevertWorkspaceDelta(gws.tree, workspace_delta)
                             ELSE gws.tree,
                    !.force_fallback_mode = (workspace_delta # {})]
    /\ UNCHANGED <<mutVars, scoreVars, decVars, orchVars, batchVars, policyVars, callVars>>

\* after_status, workspace_delta and, when it is not empty, the revert and
\* the fallback flag of the runner, which is assigned True and nothing else.
GuardWorkspace ==
    /\ gws.pc = "executed"
    /\ LET workspace_delta == GitStatusLines(gws.tree) \ gws.before_status
       IN gws' = [gws EXCEPT
                    !.pc = "guarded",
                    !.workspace_delta = workspace_delta,
                    !.tree = IF workspace_delta # {}
                             THEN RevertWorkspaceDelta(gws.tree, workspace_delta)
                             ELSE gws.tree,
                    !.force_fallback_mode = IF workspace_delta # {} THEN TRUE ELSE @]
    /\ UNCHANGED <<mutVars, scoreVars, decVars, orchVars, batchVars, policyVars, callVars>>

\* judge.score, score_execution, the workspace-delta override,
\* results.append.
ScoreScenario ==
    /\ gws.pc = "guarded"
    /\ \E r \in JudgeRuns :
          LET judge_payload == SkillJudgeScore(r)
              scored == [gws.input EXCEPT !.judge = judge_payload]
          IN gws' = [gws EXCEPT
                        !.pc = "appended",
                        !.judge = r,
                        !.input = scored,
                        !.result = DeltaOverride(ScoreExecution(scored),
                                                 gws.workspace_delta # {})]
    /\ UNCHANGED <<mutVars, scoreVars, decVars, orchVars, batchVars, policyVars, callVars>>

\* the loop of _run_partition goes on to its next scenario, or a later
\* evaluation pass begins with its first: the runner is the same object,
\* the locals of the iteration are new.
NextScenario ==
    /\ gws.pc = "appended"
    /\ gws.scenarios + 1 < MaxScenarios
    /\ gws' = [gws EXCEPT !.pc = "scenario", !.scenarios = @ + 1,
                          !.before_status = {}, !.workspace_delta = {},
                          !.input.judge = NoInput.judge, !.judge = NoGuard.judge,
                          !.result = NoResult]
    /\ UNCHANGED <<mutVars, scoreVars, decVars, orchVars, batchVars, policyVars, callVars>>

NextGuard == RunnerExecute \/ GuardWorkspace \/ ScoreScenario \/ NextScenario

SpecGuard == InitGuard /\ [][NextGuard]_vars

\* C19: when the status after a scenario's execution holds entries that were
\* absent before it, the scenario's result has hard_pass false and fitness 0
\* and, once the guard has run, none of those entries is left in the status
\* of the workspace.
C19_DeltaRevertedAndFailed ==
    (gws.pc = "appended" /\ gws.workspace_delta # {}) =>
        /\ ~gws.result.hard_pass
        /\ gws.result.fitness = 0
        /\ GitStatusLines(gws.tree) \cap gws.workspace_delta = {}

\* C19 witness: the agent created an untracked file, the guard removed it
\* and the scenario, which would have passed, was failed.
C19_Witness ==
    /\ gws.pc = "appended"
    /\ gws.workspace_delta = {<<"?", "?", " ", "x", "y">>}
    /\ ScoreExecution(gws.input).hard_pass
    /\ ~gws.result.hard_pass

\* the part of C19 about the result alone.
C19_DeltaFailsScenario ==
    (gws.pc = "appended" /\ gws.workspace_delta # {}) =>
        (~gws.result.hard_pass /\ gws.result.fitness = 0)

\* the part of C19 about the revert, for untracked entries alone.
C19_UntrackedReverted ==
    (gws.pc = "appended") =>
        \A line \in gws.workspace_delta :
            SubSeq(line, 1, 2) = <<"?", "?">> => line \notin GitStatusLines(gws.tree)

(***************************************************************************)
(* The Mutator on its own: one apply, then rollbacks of its transaction.   *)
(***************************************************************************)
InitMutator ==
    /\ \E skill \in SkillMdContents :
          /\ files = Workspace(skill).files
          /\ dirs = Workspace(skill).dirs
    /\ linesep \in LineSeps
    /\ proposal \in Proposals
    /\ wlog = {}
    /\ tx = EmptyTx
    /\ mpc = "ready"
    /\ pre = Disk
    /\ post = Disk
    /\ nroll = 0
    /\ nexec = 0
    /\ IdleScore
    /\ IdleDecide
    /\ IdleOrch
    /\ IdleGuard
    /\ IdleBatch
    /\ IdlePolicy
    /\ IdleCalls

MutApply ==
    /\ mpc = "ready"
    /\ LET r == Apply(Fs, proposal, linesep) IN
          /\ files' = r.fs.files
          /\ dirs' = r.fs.dirs
          /\ wlog' = r.fs.wlog
          /\ tx' = r.tx
          /\ nexec' = r.nexec
          /\ mpc' = IF r.tx.errors # <<>> THEN "failed" ELSE "applied"
          /\ nroll' = IF r.tx.errors # <<>> THEN 1 ELSE 0
          /\ post' = [files |-> r.fs.files, dirs |-> r.fs.dirs]
    /\ pre' = Disk
    /\ UNCHANGED <<linesep, proposal, notMutVars>>

MutRollback ==
    /\ mpc \in {"applied", "failed", "rolledback"}
    /\ nroll < MaxRollbacks
    /\ LET fs == Rollback(Fs, tx, linesep) IN
          /\ files' = fs.files
          /\ dirs' = fs.dirs
          /\ wlog' = fs.wlog
          /\ post' = IF nroll = 0 THEN [files |-> fs.files, dirs |-> fs.dirs] ELSE post
    /\ nroll' = nroll + 1
    /\ mpc' = IF mpc = "failed" THEN "failed" ELSE "rolledback"
    /\ UNCHANGED <<linesep, proposal, tx, pre, nexec, notMutVars>>

NextMutator == MutApply \/ MutRollback

SpecMutator == InitMutator /\ [][NextMutator]_vars

(***************************************************************************)
(* Claims about the Mutator (checked under SpecMutator).                   *)
(***************************************************************************)
PolicyOk(p) == InWorkspace(p) /\ IsAllowed(RelPath(p)) /\ ~IsDenied(RelPath(p))

SameAsBefore(p) ==
    IF p \in DOMAIN pre.files
    THEN p \in DOMAIN files /\ files[p] = pre.files[p]
    ELSE p \notin DOMAIN files

\* C3: after a successful apply followed by rollback, every backed-up path
\* holds exactly its pre-apply bytes if it existed before apply, and is
\* absent if it did not.
C3_RollbackRestoresPreImage ==
    (mpc = "rolledback" /\ nroll >= 1) =>
        \A p \in BackupPaths(tx) : SameAsBefore(p)

\* C4: when an operation of the proposal fails, apply records an error, runs
\* no later operation, and returns with every file touched by the earlier
\* operations back to its pre-apply bytes or absence.
C4_ApplyFailureAtomic ==
    (mpc = "failed") =>
        /\ Len(tx.errors) = 1
        /\ tx.errors[1] = proposal[nexec].path
        /\ wlog \subseteq {Resolve(proposal[i].path) : i \in 1..nexec}
        /\ \A p \in wlog \cup BackupPaths(tx) : SameAsBefore(p)

\* C5: an operation whose resolved path escapes the workspace root, is
\* deny-listed or is not allow-listed stops apply before that operation backs
\* up or writes anything; every path apply backed up, wrote or unlinked is
\* inside the workspace root, allow-listed and not deny-listed.
C5_PathPolicy ==
    /\ \A p \in wlog \cup BackupPaths(tx) : PolicyOk(p)
    /\ (mpc # "ready") =>
          \A i \in 1..Len(proposal) :
              ~PolicyOk(Resolve(proposal[i].path)) =>
                  (tx.errors # <<>> /\ nexec <= i)

\* C5 witness: apply wrote a file for an earlier operation and then rejected
\* an operation on a deny-listed path that is also allow-listed.
C5_Witness ==
    /\ mpc = "failed"
    /\ nexec = 2
    /\ Len(tx.backups) = 1
    /\ IsDenied(RelPath(Resolve(proposal[2].path)))
    /\ IsAllowed(RelPath(Resolve(proposal[2].path)))

\* C6: rolling the same transaction back again leaves the workspace as the
\* first rollback left it.
C6_RollbackIdempotent == (nroll >= 2) => Disk = post

\* C6 witness: apply failed after writing (and rolled back itself), and the
\* caller rolled the transaction back again; and a kept apply rolled back
\* twice is reachable as well.
C6_Witness ==
    /\ mpc = "failed"
    /\ nroll >= 2
    /\ wlog # {}
    /\ Disk = post

(***************************************************************************)
(* EvolutionOrchestrator.run: the baseline, then the epoch loop.  Every    *)
(* action is one path of the loop body between two of the points "start",  *)
(* "head" (the loop head), "lane" (before the control-runtime-lane         *)
(* evaluation), "ready" (before apply), "applied" (before the candidate    *)
(* evaluation) and "finished".  What the runner, the judge, the proposer   *)
(* and the gate commands answer is chosen freely.                          *)
(***************************************************************************)
\* _stop_reason without the test of the stop file.
StopReasonUnpolled(cfg, epoch, stagnant_epochs, stop_file, wall_elapsed) ==
    IF ~cfg.continuous /\ cfg.max_epochs <= 0 /\ epoch > 0 THEN "max-epochs-reached"
    ELSE IF ~cfg.continuous /\ cfg.max_epochs > 0 /\ epoch > cfg.max_epochs
    THEN "max-epochs-reached"
    ELSE IF cfg.max_wall_seconds > 0 /\ wall_elapsed THEN "max-wall-seconds-reached"
    ELSE IF cfg.max_stagnant_epochs > 0 /\ stagnant_epochs >= cfg.max_stagnant_epochs
    THEN "max-stagnant-epochs-reached"
    ELSE IF cfg.continuous /\ cfg.max_epochs > 0 /\ epoch > cfg.max_epochs
    THEN "max-epochs-reached"
    ELSE ""

\* _stop_reason with the epoch cap one epoch late.
StopReasonLateCap(cfg, epoch, stagnant_epochs, stop_file, wall_elapsed) ==
    IF ~cfg.continuous /\ epoch > cfg.max_epochs + 1 THEN "max-epochs-reached"
    ELSE IF stop_file THEN "stop-file-triggered"
    ELSE IF cfg.max_wall_seconds > 0 /\ wall_elapsed THEN "max-wall-seconds-reached"
    ELSE IF cfg.max_stagnant_epochs > 0 /\ stagnant_epochs >= cfg.max_stagnant_epochs
    THEN "max-stagnant-epochs-reached"
    ELSE IF cfg.continuous /\ cfg.max_epochs > 0 /\ epoch > cfg.max_epochs
    THEN "max-epochs-reached"
    ELSE ""

StopReason(cfg, epoch, stagnant_epochs, stop_file, wall_elapsed) ==
    IF ~cfg.continuous /\ cfg.max_epochs <= 0 /\ epoch > 0 THEN "max-epochs-reached"
    ELSE IF ~cfg.continuous /\ cfg.max_epochs > 0 /\ epoch > cfg.max_epochs
    THEN "max-epochs-reached"
    ELSE IF stop_file THEN "stop-file-triggered"
    ELSE IF cfg.max_wall_seconds > 0 /\ wall_elapsed THEN "max-wall-seconds-reached"
    ELSE IF cfg.max_stagnant_epochs > 0 /\ stagnant_epochs >= cfg.max_stagnant_epochs
    THEN "max-stagnant-epochs-reached"
    ELSE IF cfg.continuous /\ cfg.max_epochs > 0 /\ epoch > cfg.max_epochs
    THEN "max-epochs-reached"
    ELSE ""

IsProviderBlockedSnapshot(cfg, snapshot) ==
    /\ cfg.stop_when_provider_blocked
    /\ snapshot.provider_blocked_rate >= cfg.provider_blocked_stop_rate

\* _assess_provisional_confirmation without the confidence threshold.
ProvisionalConfirmedUnsure(cfg, snapshot) ==
    /\ ~(snapshot.provider_blocked_rate > cfg.provisional_confirm_max_provider_blocked_rate)
    /\ ~(snapshot.hard_pass_rate < cfg.provisional_confirm_min_hard_pass_rate)

\* _assess_provisional_confirmation(snapshot)["confirmed"]
ProvisionalConfirmed(cfg, snapshot) ==
    /\ ~(snapshot.provider_blocked_rate > cfg.provisional_confirm_max_provider_blocked_rate)
    /\ ~(snapshot.validation_confidence_mean <
            cfg.provisional_confirm_min_validation_confidence)
    /\ ~(snapshot.hard_pass_rate < cfg.provisional_confirm_min_hard_pass_rate)

\* _is_stable_snapshot that takes no snapshot for stable.
NeverStable(snapshot) == FALSE

IsStableSnapshot(snapshot) ==
    /\ ~(snapshot.hard_pass_rate < 100)
    /\ snapshot.train_score >= 900
    /\ snapshot.holdout_score >= 900

ProposalTouchesRuntimeLane(cfg, ops) ==
    /\ cfg.runtime_lane_enabled
    /\ \E i \in 1..Len(ops) : \E rp \in RuntimePaths : IsPrefix(rp, ops[i].path)

\* " ".join(value.split()): runs of whitespace become one "SP", none at the
\* ends.
RECURSIVE MeaningfulFrom(_, _, _)
MeaningfulFrom(t, acc, gap) ==
    IF t = <<>> THEN acc
    ELSE IF Head(t) \in {"LF", "CR"} THEN MeaningfulFrom(Tail(t), acc, acc # <<>>)
    ELSE MeaningfulFrom(Tail(t),
                        acc \o (IF gap THEN <<"SP">> ELSE <<>>) \o <<Head(t)>>, FALSE)

MeaningfulText(value) == MeaningfulFrom(value, <<>>, FALSE)

\* _analyze_candidate_delta; alignment is the score _analyze_failure_alignment
\* gives the proposal.
AnalyzeCandidateDelta(fs, t, alignment) ==
    LET entry(i) ==
            LET path == t.changed_paths[i]
                b == CHOOSE k \in 1..Len(t.backups) : t.backups[k].path = path
                before == t.backups[b].content
                after == CurrentText(fs, path)
                rel == RelPath(path)
            IN  [path |-> rel,
                 content_changed |-> before # after,
                 eligible |-> /\ MeaningfulText(before) # MeaningfulText(after)
                              /\ (PrefixMatch(rel, SkillPaths) \/ PrefixMatch(rel, RuntimePaths))]
        eligible_entries ==
            {i \in 1..Len(t.changed_paths) : entry(i).content_changed /\ entry(i).eligible}
        required_touch == {i \in eligible_entries : PrefixMatch(entry(i).path, SkillPaths)}
    IN  [has_required_evolution_diff |-> eligible_entries # {},
         required_hydration_paths_touched |-> Cardinality(required_touch),
         failure_alignment_score |-> alignment]

\* The snapshots an evaluation pass may return.
StableControl == Snapshot(950, 950, 100, 100, 0, 0, 100, 500, 500, 500, 600)

BlockedControl == Snapshot(0, 0, 0, 90, 100, 100, 20, 0, 0, 0, 600)

ImprovedCandidate == Snapshot(810, 810, 100, 100, 0, 0, 100, 505, 500, 500, 600)

\* The clean baseline with a validation confidence below the confirmation
\* threshold.
UnsureControl == Snapshot(800, 800, 100, 90, 10, 0, 80, 500, 500, 500, 600)

ControlSnapshots == {CleanBaseline, StableControl, BlockedControl, UnsureControl}

CandidateEvaluations == {ImprovedCandidate, CleanBaseline, BlockedControl}

\* The proposals Mutator.propose may return.
EpochProposals ==
    { << Op("replace_text", SkillMd, <<"b">>, <<"a", "a">>, None, None, None) >>,
      << Op("replace_text", SkillMd, <<"b">>, <<"a", "a">>, None, None, None),
         Op("write_file", NewMd, None, None, None, None, None) >>,
      << Op("append_text", SkillMd, None, None, None, <<"LF">>, None) >>,
      << Op("append_text", SkillMd, None, None, None, <<"b">>, None),
         Op("append_text", RuntimeScript, None, None, None, <<"b">>, None) >> }

\* An evaluation pass: what it ran against.
Evaluated(label) ==
    [obs EXCEPT !.label = label, !.nexec = nexec, !.errors = tx.errors,
                !.wrote = wlog, !.files = files]

\* Lines 320-412 of the loop body for the control snapshot: the blocked
\* streak, the stop-or-degrade choice, the provisional confirmation.
\* the control step without the grace snapshots.
ControlStepNoGrace(cfg, r, snapshot) ==
    LET control_blocked == IsProviderBlockedSnapshot(cfg, snapshot)
        streak == IF control_blocked THEN r.provider_blocked_streak + 1 ELSE 0
        stop == control_blocked /\ cfg.stop_when_provider_blocked
                /\ ~cfg.continue_on_provider_blocked
        degraded == control_blocked /\ ~stop
        confirmed ==
            r.provisional_pending /\ ~stop /\ ~degraded /\ ProvisionalConfirmed(cfg, snapshot)
    IN  [stop |-> stop,
         run |-> [r EXCEPT !.provider_blocked_streak = streak,
                           !.provider_degraded_mode = degraded,
                           !.provisional_pending = IF confirmed THEN FALSE ELSE @,
                           !.provisional_confirmations = IF confirmed THEN @ + 1 ELSE @]]

\* the control step that stops on a blocked provider whatever
\* continue_on_provider_blocked says.
ControlStepHardStop(cfg, r, snapshot) ==
    LET control_blocked == IsProviderBlockedSnapshot(cfg, snapshot)
        streak == IF control_blocked THEN r.provider_blocked_streak + 1 ELSE 0
        stop == control_blocked /\ streak > cfg.provider_blocked_grace_snapshots
    IN  [stop |-> stop,
         run |-> [r EXCEPT !.provider_blocked_streak = streak,
                           !.provider_degraded_mode = FALSE]]

\* the control step that leaves the streak as it is after a snapshot that
\* is not blocked.
ControlStepKeepingStreak(cfg, r, snapshot) ==
    LET control_blocked == IsProviderBlockedSnapshot(cfg, snapshot)
        streak == IF control_blocked THEN r.provider_blocked_streak + 1
                  ELSE r.provider_blocked_streak
        over == control_blocked /\ streak > cfg.provider_blocked_grace_snapshots
        stop == over /\ cfg.stop_when_provider_blocked /\ ~cfg.continue_on_provider_blocked
        degraded == over /\ ~stop
        confirmed ==
            r.provisional_pending /\ ~stop /\ ~degraded /\ ProvisionalConfirmed(cfg, snapshot)
    IN  [stop |-> stop,
         run |-> [r EXCEPT !.provider_blocked_streak = streak,
                           !.provider_degraded_mode = degraded,
                           !.provisional_pending = IF confirmed THEN FALSE ELSE @,
                           !.provisional_confirmations = IF confirmed THEN @ + 1 ELSE @]]

ControlStep(cfg, r, snapshot) ==
    LET control_blocked == IsProviderBlockedSnapshot(cfg, snapshot)
        streak == IF control_blocked THEN r.provider_blocked_streak + 1 ELSE 0
        over == control_blocked /\ streak > cfg.provider_blocked_grace_snapshots
        stop == over /\ cfg.stop_when_provider_blocked /\ ~cfg.continue_on_provider_blocked
        degraded == over /\ ~stop
        confirmed ==
            r.provisional_pending /\ ~stop /\ ~degraded /\ ProvisionalConfirmed(cfg, snapshot)
    IN  [stop |-> stop,
         run |-> [r EXCEPT !.provider_blocked_streak = streak,
                           !.provider_degraded_mode = degraded,
                           !.provisional_pending = IF confirmed THEN FALSE ELSE @,
                           !.provisional_confirmations = IF confirmed THEN @ + 1 ELSE @]]

InitOrch ==
    /\ \E skill \in {<<"a", "LF", "b">>, <<"b", "CR">>} :
          /\ files = Workspace(skill).files
          /\ dirs = Workspace(skill).dirs
    /\ linesep = <<"LF">>
    /\ ocfg \in RunConfigs
    /\ wlog = {}
    /\ proposal = <<>>
    /\ tx = EmptyTx
    /\ mpc = "idle"
    /\ pre = Disk
    /\ post = Disk
    /\ nroll = 0
    /\ nexec = 0
    /\ run = RunStart
    /\ opc = "start"
    /\ obs = [NoObservation EXCEPT !.start = files]
    /\ IdleScore
    /\ IdleDecide
    /\ IdleGuard
    /\ IdleBatch
    /\ IdlePolicy
    /\ IdleCalls

\* run up to the loop: the baseline snapshot and the first blocked check.
Baseline ==
    /\ opc = "start"
    /\ \E snapshot \in ControlSnapshots :
          LET blocked == IsProviderBlockedSnapshot(ocfg, snapshot)
              streak == IF blocked THEN 1 ELSE 0
              stop == /\ blocked
                      /\ streak > ocfg.provider_blocked_grace_snapshots
                      /\ ocfg.stop_when_provider_blocked
                      /\ ~ocfg.continue_on_provider_blocked
          IN  run' = [run EXCEPT !.active_snapshot = snapshot,
                                 !.provider_blocked_streak = streak,
                                 !.stop_reason = IF stop THEN "provider-blocked" ELSE ""]
    /\ obs' = [Evaluated("baseline") EXCEPT
                  !.blocked_run = BlockedRun(0, ocfg, run'.active_snapshot)]
    /\ opc' = "head"
    /\ UNCHANGED <<files, dirs, linesep, wlog, proposal, tx, pre, nexec, ocfg, notOrchVars>>

\* The loop ends at its head; stop_file and wall_elapsed are what
\* _stop_reason found, when it was called: a stop marker that exists is
\* found, one that was not seen before may have been created just then.
Finish ==
    /\ opc = "head"
    /\ \E stop_file \in {b \in BOOLEAN : obs.marker => b}, wall_elapsed \in BOOLEAN :
          LET reason == IF run.stop_reason # "" THEN run.stop_reason
                        ELSE StopReason(ocfg, run.epoch, run.stagnant_epochs,
                                        stop_file, wall_elapsed)
          IN  /\ reason # ""
              /\ run' = [run EXCEPT !.stop_reason = reason,
                                     !.stop_file = stop_file /\ run.stop_reason = "",
                                     !.wall_elapsed = wall_elapsed /\ run.stop_reason = ""]
    /\ opc' = "finished"
    /\ UNCHANGED <<files, dirs, linesep, wlog, proposal, tx, pre, nexec, ocfg, obs,
                   notOrchVars>>

\* The loop body may start: no stop reason at the head.
EpochStarts ==
    /\ opc = "head"
    /\ run.stop_reason = ""
    /\ StopReason(ocfg, run.epoch, run.stagnant_epochs, obs.marker, FALSE) = ""

\* The epoch's transaction and proposal do not exist yet; the run of
\* provider-blocked snapshots goes on or ends with this one; the control
\* snapshot ran over the batches of _select_batches, which are the decision
\* batches and the lists of control_for_decision until the runtime lane
\* replaces them.
NewEpoch(ops, snapshot) ==
    /\ proposal' = ops
    /\ tx' = EmptyTx
    /\ wlog' = {}
    /\ nexec' = 0
    /\ pre' = Disk
    /\ LET control == SelectBatches(run.epoch, TrainPool, HoldoutPool, FALSE) IN
          obs' = [Evaluated("control") EXCEPT !.nexec = 0, !.errors = <<>>, !.wrote = {},
                                              !.start = files,
                                              !.control_batches = control,
                                              !.decision_batches = control,
                                              !.baseline_over = control,
                                              !.candidate_over = NoBatches,
                                              !.blocked_run =
                                                  BlockedRun(@, ocfg, snapshot)]
    /\ UNCHANGED <<files, dirs, linesep, ocfg, notOrchVars>>

\* The control snapshot is blocked past the grace and the run must stop.
ProviderBlockedStop ==
    /\ EpochStarts
    /\ \E snapshot \in ControlSnapshots :
          LET c == ControlStep(ocfg, run, snapshot) IN
          /\ c.stop
          /\ run' = [c.run EXCEPT !.active_snapshot = snapshot,
                                  !.stop_reason = "provider-blocked",
                                  !.event = "provider-blocked-stop"]
    /\ opc' = "finished"
    /\ NewEpoch(<<>>, run'.active_snapshot)

\* dry_run or disable_mutation: the epoch only evaluates.
EvaluationOnly ==
    /\ EpochStarts
    /\ ocfg.mutation_off
    /\ \E snapshot \in ControlSnapshots :
          LET c == ControlStep(ocfg, run, snapshot) IN
          /\ ~c.stop
          /\ run' = [c.run EXCEPT !.active_snapshot = snapshot,
                                  !.event = "evaluation-only",
                                  !.epoch = @ + 1]
    /\ opc' = "head"
    /\ NewEpoch(<<>>, run'.active_snapshot)

\* propose returned None.
MutationSkipped ==
    /\ EpochStarts
    /\ ~ocfg.mutation_off
    /\ \E snapshot \in ControlSnapshots :
          LET c == ControlStep(ocfg, run, snapshot) IN
          /\ ~c.stop
          /\ run' = [c.run EXCEPT
                       !.stagnant_epochs = IF IsStableSnapshot(snapshot) THEN 0 ELSE @ + 1,
                       !.active_snapshot = snapshot,
                       !.event = IF IsStableSnapshot(snapshot)
                                 THEN "steady-state-no-mutation" ELSE "mutation-skipped",
                       !.epoch = @ + 1]
    /\ opc' = "head"
    /\ NewEpoch(<<>>, run'.active_snapshot)

\* propose returned a proposal.
Proposed ==
    /\ EpochStarts
    /\ ~ocfg.mutation_off
    /\ \E snapshot \in ControlSnapshots, ops \in EpochProposals :
          LET c == ControlStep(ocfg, run, snapshot)
              touched == ProposalTouchesRuntimeLane(ocfg, ops)
          IN  /\ ~c.stop
              /\ run' = [c.run EXCEPT !.runtime_touched = touched,
                                      !.control_for_decision = snapshot]
              /\ opc' = IF touched /\ ocfg.force_full_evaluation THEN "lane" ELSE "ready"
              /\ NewEpoch(ops, snapshot)

\* The control-runtime-lane snapshot over the full pools.
ControlRuntimeLane ==
    /\ opc = "lane"
    /\ \E snapshot \in ControlSnapshots :
          run' = [run EXCEPT !.control_for_decision = snapshot]
    /\ LET full == <<TrainPool, HoldoutPool>> IN
          obs' = [Evaluated("control-runtime-lane") EXCEPT !.decision_batches = full,
                                                           !.baseline_over = full]
    /\ opc' = "ready"
    /\ UNCHANGED <<files, dirs, linesep, wlog, proposal, tx, pre, nexec, ocfg, notOrchVars>>

\* candidate_bank_entry
BankEntry(decision) ==
    [epoch |-> run.epoch, accepted |-> decision.accepted, reason |-> decision.reason]

\* The bookkeeping of a rejected epoch without the call of rollback.
RolledBackKeepingChange(r, event, entries) ==
    LET fs == r.fs IN
    /\ files' = fs.files
    /\ dirs' = fs.dirs
    /\ wlog' = fs.wlog
    /\ tx' = r.tx
    /\ run' = [run EXCEPT !.stagnant_epochs = @ + 1,
                          !.active_snapshot = run.control_for_decision,
                          !.event = event,
                          !.candidate_bank = @ \o entries,
                          !.epoch = @ + 1]
    /\ opc' = "head"

\* The epoch ends without the change: the transaction r.tx is rolled back;
\* entries is what the path appends to candidate_bank.
RolledBack(r, event, entries) ==
    LET fs == Rollback(r.fs, r.tx, linesep) IN
    /\ files' = fs.files
    /\ dirs' = fs.dirs
    /\ wlog' = fs.wlog
    /\ tx' = r.tx
    /\ run' = [run EXCEPT !.stagnant_epochs = @ + 1,
                          !.active_snapshot = run.control_for_decision,
                          !.event = event,
                          !.candidate_bank = @ \o entries,
                          !.epoch = @ + 1]
    /\ opc' = "head"

\* apply returned errors.
ApplyFailed ==
    /\ opc = "ready"
    /\ LET r == Apply(Fs, proposal, linesep) IN
          /\ r.tx.errors # <<>>
          /\ nexec' = r.nexec
          /\ RolledBack(r, "mutation-apply-failed", <<>>)
    /\ pre' = Disk
    /\ UNCHANGED <<linesep, proposal, ocfg, obs, notOrchVars>>

\* apply made no eligible meaningful change.
NoEvolutionDiff ==
    /\ opc = "ready"
    /\ LET r == Apply(Fs, proposal, linesep) IN
          /\ r.tx.errors = <<>>
          /\ ~AnalyzeCandidateDelta(r.fs, r.tx, 0).has_required_evolution_diff
          /\ nexec' = r.nexec
          /\ RolledBack(r, "rejected-no-evolution-diff", <<>>)
    /\ pre' = Disk
    /\ UNCHANGED <<linesep, proposal, ocfg, obs, notOrchVars>>

\* A quality-gate command failed on the changed workspace.
QualityGateFailed ==
    /\ opc = "ready"
    /\ LET r == Apply(Fs, proposal, linesep) IN
          /\ r.tx.errors = <<>>
          /\ AnalyzeCandidateDelta(r.fs, r.tx, 0).has_required_evolution_diff
          /\ nexec' = r.nexec
          /\ RolledBack(r, "quality-gate-failed", <<>>)
    /\ pre' = Disk
    /\ UNCHANGED <<linesep, proposal, ocfg, obs, notOrchVars>>

\* apply, the delta analysis and the quality gates went through.
GatesPassed ==
    /\ opc = "ready"
    /\ \E alignment \in {0, 50} :
          LET r == Apply(Fs, proposal, linesep)
              delta == AnalyzeCandidateDelta(r.fs, r.tx, alignment)
          IN  /\ r.tx.errors = <<>>
              /\ delta.has_required_evolution_diff
              /\ files' = r.fs.files
              /\ dirs' = r.fs.dirs
              /\ wlog' = r.fs.wlog
              /\ tx' = r.tx
              /\ nexec' = r.nexec
              /\ run' = [run EXCEPT !.candidate_delta = delta]
    /\ pre' = Disk
    /\ obs' = [obs EXCEPT !.open = @ + 1]
    /\ opc' = "applied"
    /\ UNCHANGED <<linesep, proposal, ocfg, notOrchVars>>

\* The call of _decide for the candidate snapshot.
EpochDecision(candidate) ==
    Decide([baseline |-> run.control_for_decision, candidate |-> candidate,
            runtime_touched |-> run.runtime_touched,
            candidate_delta |-> run.candidate_delta,
            degraded_provider_mode |-> run.provider_degraded_mode,
            provisional_accepts |-> run.provisional_accepts,
            cfg |-> ocfg.gates])

\* The candidate snapshot and an accepted Decision: the change is kept.
CandidateAccepted ==
    /\ opc = "applied"
    /\ \E candidate \in CandidateEvaluations :
          LET decision == EpochDecision(candidate) IN
          /\ decision.accepted
          /\ run' = [run EXCEPT
                       !.active_snapshot = candidate,
                       !.stagnant_epochs = 0,
                       !.provisional_accepts = IF decision.provisional THEN @ + 1 ELSE @,
                       !.provisional_pending = decision.provisional,
                       !.event = IF decision.provisional THEN "accepted-provisional"
                                 ELSE "accepted",
                       !.candidate_bank = Append(@, BankEntry(decision)),
                       !.epoch = @ + 1]
    /\ obs' = [Evaluated("candidate") EXCEPT
                  !.open = @ - 1,
                  !.candidate_over = CandidateBatches(obs.decision_batches,
                                                      obs.control_batches)]
    /\ opc' = "head"
    /\ UNCHANGED <<files, dirs, linesep, wlog, proposal, tx, pre, nexec, ocfg, notOrchVars>>

\* The candidate snapshot and a rejected Decision: rollback.
CandidateRejected ==
    /\ opc = "applied"
    /\ \E candidate \in CandidateEvaluations :
          LET decision == EpochDecision(candidate) IN
          /\ ~decision.accepted
          /\ RolledBack([fs |-> Fs, tx |-> tx], "rejected", <<BankEntry(decision)>>)
    /\ obs' = [Evaluated("candidate") EXCEPT
                  !.open = @ - 1,
                  !.candidate_over = CandidateBatches(obs.decision_batches,
                                                      obs.control_batches)]
    /\ UNCHANGED <<linesep, proposal, pre, nexec, ocfg, notOrchVars>>

Next ==
    \/ Baseline
    \/ Finish
    \/ ProviderBlockedStop
    \/ EvaluationOnly
    \/ MutationSkipped
    \/ Proposed
    \/ ControlRuntimeLane
    \/ ApplyFailed
    \/ NoEvolutionDiff
    \/ QualityGateFailed
    \/ GatesPassed
    \/ CandidateAccepted
    \/ CandidateRejected

Spec == InitOrch /\ [][Next]_vars

\* Somebody creates the stop marker (config.stop_file) while an epoch is
\* being executed.
StopMarkerCreated ==
    /\ opc \in {"lane", "ready", "applied"}
    /\ ~obs.marker
    /\ obs' = [obs EXCEPT !.marker = TRUE]
    /\ UNCHANGED <<files, dirs, linesep, wlog, proposal, tx, pre, nexec, ocfg, run, opc,
                   notOrchVars>>

NextStop == Next \/ StopMarkerCreated

\* run on one workspace, with a stop marker that may appear during any
\* epoch.
InitStop ==
    /\ InitOrch
    /\ files[Abs(SkillMd)] = <<"a", "LF", "b">>

SpecStop == InitStop /\ [][NextStop]_vars

\* mutator.apply and what run does with its result come back: the loop does
\* not stay before apply for ever.
ApplyReturns == opc = "ready" /\ opc' \in {"head", "applied"}

\* The steps of run other than the four that begin with apply.
OtherSteps ==
    \/ Baseline
    \/ Finish
    \/ ProviderBlockedStop
    \/ EvaluationOnly
    \/ MutationSkipped
    \/ Proposed
    \/ ControlRuntimeLane
    \/ CandidateAccepted
    \/ CandidateRejected

\* A non-continuous run on one workspace.
InitLive ==
    /\ InitOrch
    /\ ~ocfg.continuous
    /\ files[Abs(SkillMd)] = <<"a", "LF", "b">>

\* run is sequential code: as long as a step is possible and every external
\* call returns, the next step is taken.
SpecLive ==
    InitLive /\ [][Next]_vars /\ WF_vars(OtherSteps) /\ WF_opc(ApplyReturns)

\* The workspace before the epoch's mutation, as apply finds it.
BeforeMutation == [files |-> pre.files, dirs |-> pre.dirs, wlog |-> {}]

\* Every operation of ops carried out on fs, in order; ok is FALSE when
\* one of them could not be.
RECURSIVE AppliedInFull(_, _, _)
AppliedInFull(fs, ops, sep) ==
    IF ops = <<>> THEN [ok |-> TRUE, fs |-> fs]
    ELSE LET r == ApplyOperation(fs, Resolve(Head(ops).path), Head(ops), sep) IN
         IF ~r.ok THEN [ok |-> FALSE, fs |-> fs]
         ELSE AppliedInFull(r.fs, Tail(ops), sep)

RolledBackEvents ==
    {"mutation-apply-failed", "rejected-no-evolution-diff", "quality-gate-failed", "rejected"}

AcceptedEvents == {"accepted", "accepted-provisional"}

\* C1: at most one transaction exists at a time, and at the loop head and
\* at run finish none is outstanding: after an epoch that ended in an apply
\* error, no meaningful diff, a quality-gate failure or a rejected Decision
\* the files are those from before its mutation, after an accepted one they
\* are those files with every operation of the proposal applied.
C1_EpochsStartSettled ==
    /\ obs.open <= 1
    /\ opc \in {"head", "finished"} =>
          /\ obs.open = 0
          /\ run.event \in RolledBackEvents => files = pre.files
          /\ run.event \in AcceptedEvents =>
                LET a == AppliedInFull(BeforeMutation, proposal, linesep) IN
                a.ok /\ files = a.fs.files

\* C2: an evaluation pass sees the epoch's proposal not applied at all or
\* applied completely: the baseline, control and control-runtime-lane
\* passes run before any operation of it, the candidate pass only after
\* apply returned without errors, on the files with every operation
\* carried out.
C2_PassesSeeWholeOrNoProposal ==
    /\ obs.label \in {"baseline", "control", "control-runtime-lane"} =>
          /\ obs.nexec = 0
          /\ obs.wrote = {}
          /\ obs.errors = <<>>
          /\ obs.files = obs.start
    /\ obs.label = "candidate" =>
          LET a == AppliedInFull(BeforeMutation, proposal, linesep) IN
          /\ obs.errors = <<>>
          /\ obs.nexec = Len(proposal)
          /\ a.ok
          /\ obs.files = a.fs.files
          /\ \A i \in 1..Len(proposal) : Resolve(proposal[i].path) \in obs.wrote

\* A candidate pass of a two-operation proposal that touches the runtime
\* lane, after its control-runtime-lane pass.
C2_Witness ==
    /\ obs.label = "candidate"
    /\ Len(proposal) = 2
    /\ run.runtime_touched
    /\ Abs(RuntimeScript) \in obs.wrote
    /\ obs.files # obs.start

\* The epoch that just ended had a proposal.
ProposalEpochEnded ==
    opc \in {"head", "finished"} /\ run.event \in RolledBackEvents \cup AcceptedEvents

\* C12: every epoch in which a proposal was produced ends with exactly one
\* candidate-bank entry for it, whether the mutation was accepted, rejected
\* by the Decision or rejected before it (apply error, no meaningful diff,
\* quality-gate failure).
C12_EveryAttemptInBank ==
    ProposalEpochEnded =>
        Cardinality({i \in 1..Len(run.candidate_bank) :
                        run.candidate_bank[i].epoch = run.epoch - 1}) = 1

\* _stop_reason ended the run.
StoppedAtBoundary == opc = "finished" /\ run.stop_reason # "provider-blocked"

StagnantCapReached ==
    ocfg.max_stagnant_epochs > 0 /\ run.stagnant_epochs >= ocfg.max_stagnant_epochs

\* C13: when several stop conditions hold at an epoch boundary the reason
\* reported is that of the first in the order stop marker, wall-clock
\* budget, stagnant-epoch cap, epoch cap; whenever the stop marker exists
\* the reason is "stop-file-triggered".
C13_StopPrecedence ==
    StoppedAtBoundary =>
        IF run.stop_file THEN run.stop_reason = "stop-file-triggered"
        ELSE IF run.wall_elapsed THEN run.stop_reason = "max-wall-seconds-reached"
        ELSE IF StagnantCapReached THEN run.stop_reason = "max-stagnant-epochs-reached"
        ELSE run.stop_reason = "max-epochs-reached"

\* An epoch is being executed.
InEpoch == opc \in {"lane", "ready", "applied"}

\* C14: a non-continuous run executes at most max(0, max_epochs) epochs,
\* none at all with max_epochs <= 0, and then reaches run_finish with a
\* non-empty stop reason.
C14_NonContinuousTerminates ==
    ~ocfg.continuous =>
        /\ [](/\ run.epoch - 1 <= Max(0, ocfg.max_epochs)
              /\ InEpoch => run.epoch <= ocfg.max_epochs
              /\ ocfg.max_epochs <= 0 => run.event = "run_start")
        /\ <>(opc = "finished" /\ run.stop_reason # "")

\* A non-continuous run that finished at its epoch cap after max_epochs
\* epochs.
C14_Witness ==
    /\ ~ocfg.continuous
    /\ opc = "finished"
    /\ ocfg.max_epochs > 0
    /\ run.epoch = ocfg.max_epochs + 1
    /\ run.stop_reason = "max-epochs-reached"
    /\ run.event \in AcceptedEvents

\* The control snapshot of the epoch a step begins.
ControlSnapshotAfter ==
    IF opc' = "head" THEN run'.active_snapshot ELSE run'.control_for_decision

\* C15: a pending provisional acceptance is marked confirmed only in an
\* epoch that is not in degraded mode and whose control snapshot has a
\* provider-blocked rate of at most the configured maximum, a
\* validation-confidence mean of at least the configured minimum and a
\* hard-pass rate of at least the configured minimum.
C15_ConfirmedOnlyWhenRecovered ==
    [][run'.provisional_confirmations # run.provisional_confirmations =>
          /\ run.provisional_pending
          /\ run'.provisional_confirmations = run.provisional_confirmations + 1
          /\ ~run'.provider_degraded_mode
          /\ ControlSnapshotAfter.provider_blocked_rate <=
                 ocfg.provisional_confirm_max_provider_blocked_rate
          /\ ControlSnapshotAfter.validation_confidence_mean >=
                 ocfg.provisional_confirm_min_validation_confidence
          /\ ControlSnapshotAfter.hard_pass_rate >=
                 ocfg.provisional_confirm_min_hard_pass_rate]_vars

\* A provisional acceptance was confirmed by the control snapshot of the
\* next epoch.
C15_Witness ==
    /\ run.provisional_confirmations = 1
    /\ run.provisional_accepts = 1
    /\ ~run.provisional_pending
    /\ opc \in {"lane", "ready"}

\* C16: provisional_pending goes from true to false only through a
\* confirmation, which increments provisional_confirmations; no other
\* event, such as a later acceptance or rejection, clears it.
C16_PendingUntilConfirmed ==
    [][(run.provisional_pending /\ ~run'.provisional_pending) =>
          run'.provisional_confirmations = run.provisional_confirmations + 1]_vars

\* The epoch that just ended reached a Decision.
DecidedEpochEnded == opc \in {"head", "finished"} /\ run.event \in AcceptedEvents \cup {"rejected"}

\* provisional_accepts as the Decision of the epoch that just ended saw it.
AcceptsBeforeDecision ==
    run.provisional_accepts - (IF run.event = "accepted-provisional" THEN 1 ELSE 0)

LastBankEntry == run.candidate_bank[Len(run.candidate_bank)]

\* C17: the number of provisional acceptances never exceeds
\* max_provisional_accepts_per_run, and once the budget is reached every
\* further degraded-mode candidate is rejected with reason "provisional
\* acceptance budget exhausted for this run".
C17_ProvisionalBudget ==
    /\ run.provisional_accepts <= ocfg.gates.max_provisional_accepts_per_run
    /\ (/\ DecidedEpochEnded
        /\ run.provider_degraded_mode
        /\ AcceptsBeforeDecision >= ocfg.gates.max_provisional_accepts_per_run) =>
          /\ run.event = "rejected"
          /\ ~LastBankEntry.accepted
          /\ LastBankEntry.reason = "provisional acceptance budget exhausted for this run"

\* A degraded-mode candidate rejected for the budget after the budget was
\* used up by an earlier provisional acceptance.
C17_Witness ==
    /\ DecidedEpochEnded
    /\ run.provider_degraded_mode
    /\ run.provisional_accepts = ocfg.gates.max_provisional_accepts_per_run
    /\ run.provisional_accepts > 0
    /\ run.event = "rejected"
    /\ LastBankEntry.reason = "provisional acceptance budget exhausted for this run"

\* A step that ends an epoch in which a proposal was produced.
ProposalEpochEnds == opc \in {"ready", "applied"} /\ opc' # "applied"

\* Every file the transaction t backed up reads as its backup, and every
\* file it created is gone.
ReadsAsBackedUp(fs_files, t) ==
    \A i \in 1..Len(t.backups) :
        LET b == t.backups[i] IN
        IF b.existed
        THEN b.path \in DOMAIN fs_files /\ ReadText(fs_files[b.path]) = b.content
        ELSE b.path \notin DOMAIN fs_files

\* C18: an epoch with a proposal ends in one of two ways and the run goes
\* on to the next epoch.  An accepted Decision keeps the change and sets
\* the stagnation counter to 0; every other outcome (apply error, no
\* meaningful diff, quality-gate failure, rejected Decision) rolls the
\* transaction back and adds exactly 1 to the stagnation counter.
C18_AcceptKeepsRejectRollsBack ==
    [][ProposalEpochEnds =>
          /\ opc' = "head"
          /\ run'.stop_reason = ""
          /\ run'.epoch = run.epoch + 1
          /\ IF run'.event \in AcceptedEvents
             THEN /\ run'.stagnant_epochs = 0
                  /\ LET a == AppliedInFull(BeforeMutation, proposal, linesep) IN
                     a.ok /\ files' = a.fs.files
             ELSE /\ run'.event \in RolledBackEvents
                  /\ run'.stagnant_epochs = run.stagnant_epochs + 1
                  /\ ReadsAsBackedUp(files', tx')]_vars

\* A second rejected epoch in a row, after a quality-gate failure on a
\* changed skill file.
C18_Witness ==
    /\ opc = "head"
    /\ run.event = "quality-gate-failed"
    /\ run.stagnant_epochs = 2
    /\ Len(tx.backups) > 0
    /\ ReadsAsBackedUp(files, tx)

(***************************************************************************)
(* Claims about the judge pipeline (checked under SpecGuard).              *)
(***************************************************************************)
\* a response that is a JSON object without the dimensions key.
LacksDimensions(text) == text # <<>> /\ text[1].dimensions = <<>>

\* the responses of a scenario, run without the fallback, whose judge
\* answered with an object lacking dimensions and never gave one that has
\* them.
JudgeLackedDimensions ==
    /\ gws.pc = "appended"
    /\ ~gws.input.execution.fallback_used
    /\ LacksDimensions(gws.judge.judge_run)
    /\ \A text \in {gws.judge.repaired, gws.judge.forced, gws.judge.compact} :
          text = <<>> \/ LacksDimensions(text)

\* C20: when the judge's payload lacks the dimensions key, the scenario's
\* result is the heuristic fallback's: the fallback score (before the
\* unavailability penalties, none in these scenarios) is its judge score,
\* its hard_failures are empty and the fallback strength note is appended.
C20_NoDimensionsUsesFallback ==
    JudgeLackedDimensions =>
        /\ gws.result.fallback_scored
        /\ gws.result.hard_failures = <<>>
        /\ gws.result.judge_score = FallbackJudgeScore(gws.input.execution, gws.input.probe).overall

\* what the code does with such a payload when it carries a numeric
\* overall: the missing dimensions are filled with the overall score and
\* the payload is scored as the judge's own.
C20_NoDimensionsFilledFromOverall ==
    (/\ JudgeLackedDimensions
     /\ gws.judge.judge_run[1].overall = <<80>>
     /\ gws.judge.judge_run[1].hard_failures = <<>>) =>
        /\ ~gws.result.fallback_scored
        /\ gws.result.judge_score = 80
        /\ \A d \in SCORE_DIMENSIONS : gws.result.dimensions[d] = 80

(***************************************************************************)
(* Claims about continuous mode, steady state and the blocked provider     *)
(* (checked under Spec).                                                   *)
(***************************************************************************)
\* C27: in continuous mode the epoch cap does not stop the run: a continuous
\* run never has the stop reason "max-epochs-reached".
C27_ContinuousIgnoresEpochCap ==
    ocfg.continuous => run.stop_reason # "max-epochs-reached"

\* what the code does: a continuous run with a positive max_epochs ends with
\* "max-epochs-reached" only past the cap and only when the stop file, the
\* wall clock and the stagnant cap did not stop it.
C27_ContinuousCapComesLast ==
    (ocfg.continuous /\ run.stop_reason = "max-epochs-reached") =>
        /\ ocfg.max_epochs > 0 /\ run.epoch > ocfg.max_epochs
        /\ ~run.stop_file
        /\ ~(ocfg.max_wall_seconds > 0 /\ run.wall_elapsed)
        /\ ~(ocfg.max_stagnant_epochs > 0 /\ run.stagnant_epochs >= ocfg.max_stagnant_epochs)

\* C28: an epoch in which no mutation proposal is produced and whose control
\* snapshot has hard-pass rate 1.0 and train and holdout scores of at least
\* 90 leaves the stagnation counter at 0.
C28_SteadyStateNotStagnant ==
    [][(/\ run'.epoch = run.epoch + 1
        /\ run'.event \in {"steady-state-no-mutation", "mutation-skipped", "evaluation-only"}
        /\ run'.active_snapshot.hard_pass_rate = 100
        /\ run'.active_snapshot.train_score >= 900
        /\ run'.active_snapshot.holdout_score >= 900)
       => run'.stagnant_epochs = 0]_vars

\* C28 witness: after an epoch whose candidate was rejected (stagnation 1),
\* an epoch without proposal on a stable control snapshot reset the counter.
C28_Witness ==
    /\ run.event = "steady-state-no-mutation"
    /\ run.stagnant_epochs = 0
    /\ run.candidate_bank # <<>>
    /\ ~run.candidate_bank[Len(run.candidate_bank)].accepted

\* a step that begins an epoch and does not stop the run.
EpochBegins == opc = "head" /\ opc' \in {"head", "lane", "ready"}

\* C29 as stated: an epoch runs in degraded mode exactly when the
\* provider-blocked rate of its control snapshot reaches the configured
\* rate and the configuration permits continuing rather than hard-stopping.
C29_DegradedExactlyWhenBlocked ==
    [][EpochBegins =>
          (run'.provider_degraded_mode <=>
              /\ ControlSnapshotAfter.provider_blocked_rate >= ocfg.provider_blocked_stop_rate
              /\ ~(ocfg.stop_when_provider_blocked /\ ~ocfg.continue_on_provider_blocked))]_vars

\* C29 amended: an epoch runs in degraded mode exactly when provider-blocked
\* detection is on (stop_when_provider_blocked), the provider-blocked rate
\* of its control snapshot reaches the configured rate, the streak of
\* consecutive blocked snapshots (the baseline included) exceeds
\* provider_blocked_grace_snapshots, and continue_on_provider_blocked is set.
C29_DegradedWhenBlockedPastGrace ==
    [][EpochBegins =>
          (run'.provider_degraded_mode <=>
              /\ ocfg.stop_when_provider_blocked
              /\ ControlSnapshotAfter.provider_blocked_rate >= ocfg.provider_blocked_stop_rate
              /\ run'.provider_blocked_streak > ocfg.provider_blocked_grace_snapshots
              /\ ocfg.continue_on_provider_blocked)]_vars

\* C29 witness: an epoch in degraded mode on the second blocked snapshot in
\* a row, with one grace snapshot configured.
C29_Witness ==
    /\ run.provider_degraded_mode
    /\ run.provider_blocked_streak = 2
    /\ ocfg.provider_blocked_grace_snapshots = 1
    /\ opc \in {"lane", "ready"}

C33_ApplyOnlyAfterGatesPassed ==
    [][(opc = "ready" /\ opc' = "head" /\ run'.event = "quality-gate-failed") =>
           wlog' = wlog]_vars

\* C35: the stop marker is polled only at the head of the loop.  A marker
\* created during an epoch ends neither the epoch nor the run before the
\* epoch has reached its outcome, and at the next boundary check the run
\* stops: the loop body is not entered again.
C35_StopMarkerPolledAtBoundary ==
    [][/\ (obs.marker /\ opc \in {"lane", "ready", "applied"}) =>
              (opc' # "finished" /\ run'.stop_reason = run.stop_reason)
       /\ (obs.marker /\ opc = "head") => opc' = "finished"]_vars

\* C35 witness: the marker was created during an epoch, the epoch went on
\* to keep or roll back its mutation, and the run stopped at the boundary
\* after it for the marker.
C35_Witness ==
    /\ obs.marker
    /\ opc = "finished"
    /\ run.stop_reason = "stop-file-triggered"
    /\ run.event \in {"accepted", "rejected"}
    /\ run.epoch = 2

(***************************************************************************)
(* Claims about the runner's fallback flag (checked under SpecGuard).      *)
(***************************************************************************)
\* C37: the runner's forced fallback-only flag is never cleared once a
\* workspace delta has set it, and every scenario executed while it is set
\* runs in fallback-only mode.
C37_FallbackFlagMonotone ==
    [][/\ gws.force_fallback_mode => gws'.force_fallback_mode
       /\ (gws.force_fallback_mode /\ gws.pc = "scenario" /\ gws'.pc = "executed") =>
              gws'.input.execution.fallback_only_mode]_vars

\* C37 witness: a delta of the first scenario set the flag, the second
\* scenario ran in fallback-only mode and left no delta, and the flag is
\* still set after its guard.
C37_Witness ==
    /\ gws.scenarios = 1
    /\ gws.pc = "appended"
    /\ gws.workspace_delta = {}
    /\ gws.force_fallback_mode
    /\ gws.input.execution.fallback_only_mode

(***************************************************************************)
(* One evaluation pass: _run_partition scores a scenario and appends its   *)
(* ScenarioResult, then _objective_metrics counts over the results. A rate *)
(* is kept as its count and the number of results it is divided by.        *)
(***************************************************************************)
MaxResults == 3

\* the executions of a pass: runs that read nothing and left no session gap.
SnapshotExecutions ==
    {e \in Executions : e.read_paths = <<>> /\ ~e.session_gap /\ ~e.open_lifecycle}

\* the run's hydration configuration.
SnapshotConfigs == {cfg \in HydrationConfigs : cfg.minimum_reads = 1}

Count(results, Is(_)) == Cardinality({i \in DOMAIN results : Is(results[i])})

ObjectiveMetrics(results) ==
    LET hard(item) == item.hard_pass
        blocked(item) == item.provider_blocked
    IN  [hard_count |-> Count(results, hard),
         provider_blocked_count |-> Count(results, blocked),
         total |-> Len(results)]

InitSnapshot ==
    /\ \E cfg \in SnapshotConfigs : snp = [NoSnapshot EXCEPT !.pc = "running", !.cfg = cfg]
    /\ IdleMutator
    /\ IdleScore
    /\ IdleDecide
    /\ IdleOrch
    /\ IdleGuard
    /\ IdleBatch
    /\ IdlePolicy
    /\ IdlePropose
    /\ IdleBeat
    /\ IdleRetry

\* one scenario of _run_partition up to the override: score_execution and
\* the workspace-delta branch.
ScoreScenarioOfPass ==
    /\ snp.pc = "running"
    /\ Len(snp.results) < MaxResults
    /\ \E e \in SnapshotExecutions, probe \in Probes, judge \in JudgePayloads,
          workspace_delta \in BOOLEAN :
          LET scored == ScoreExecution([execution |-> e, probe |-> probe,
                                        judge |-> judge, cfg |-> snp.cfg])
          IN  snp' = [snp EXCEPT !.pc = "scored",
                                 !.result = DeltaOverride(scored, workspace_delta)]
    /\ UNCHANGED <<mutVars, scoreVars, decVars, orchVars, guardVars, batchVars, policyVars,
                   proposeVars, beatVars, retryVars>>

\* results.append(result); the loop's local is dead until the next scenario.
AppendResult ==
    /\ snp.pc = "scored"
    /\ snp' = [snp EXCEPT !.pc = "running", !.result = NoResult,
                          !.results = Append(@,
                              [hard_pass |-> snp.result.hard_pass,
                               provider_blocked |-> snp.result.provider_blocked])]
    /\ UNCHANGED <<mutVars, scoreVars, decVars, orchVars, guardVars, batchVars, policyVars,
                   proposeVars, beatVars, retryVars>>

\* the end of _evaluate_snapshot: the metrics over all results.
SummariseSnapshot ==
    /\ snp.pc = "running"
    /\ snp' = [snp EXCEPT !.pc = "summarised", !.metrics = ObjectiveMetrics(snp.results)]
    /\ UNCHANGED <<mutVars, scoreVars, decVars, orchVars, guardVars, batchVars, policyVars,
                   proposeVars, beatVars, retryVars>>

NextSnapshot == ScoreScenarioOfPass \/ AppendResult \/ SummariseSnapshot

SpecSnapshot == InitSnapshot /\ [][NextSnapshot]_vars

\* C38: every ScenarioResult of a pass with provider_blocked true has
\* hard_pass false and fitness 0, when it is appended and in the results, and
\* the metrics of the pass have hard_count / total <= 1 -
\* provider_blocked_count / total (both rates are 0 over no results).
C38_BlockedNeverPasses ==
    /\ (snp.pc = "scored" /\ snp.result.provider_blocked) =>
          (~snp.result.hard_pass /\ snp.result.fitness = 0)
    /\ \A i \in DOMAIN snp.results :
          snp.results[i].provider_blocked => ~snp.results[i].hard_pass
    /\ snp.pc = "summarised" =>
          snp.metrics.hard_count + snp.metrics.provider_blocked_count <= snp.metrics.total

\* C38 witness: a summarised pass with a blocked result and a passing one,
\* where the hard-pass rate is exactly 1 - r.
C38_Witness ==
    /\ snp.pc = "summarised"
    /\ snp.metrics.provider_blocked_count > 0
    /\ snp.metrics.hard_count > 0
    /\ snp.metrics.hard_count + snp.metrics.provider_blocked_count = snp.metrics.total

(***************************************************************************)
(* Claims about the scenario lists of the two snapshots of a Decision      *)
(***************************************************************************)
\* C39: the snapshot _decide takes as baseline and the candidate snapshot
\* were evaluated over the same train list and the same holdout list, and
\* over the full merged pools when the proposal touches a runtime-lane path
\* and runtime_lane.force_full_evaluation is on.
C39_SameListsForBothSnapshots ==
    DecidedEpochEnded =>
        /\ obs.candidate_over = obs.baseline_over
        /\ (run.runtime_touched /\ ocfg.force_full_evaluation) =>
              obs.candidate_over = <<TrainPool, HoldoutPool>>

\* C39 witness: a Decision in an epoch whose proposal touched the runtime
\* lane, the control batches being shorter than the pools.
C39_Witness ==
    /\ DecidedEpochEnded
    /\ run.runtime_touched
    /\ ocfg.force_full_evaluation
    /\ obs.candidate_over = <<TrainPool, HoldoutPool>>
    /\ obs.control_batches # <<TrainPool, HoldoutPool>>
    /\ Len(obs.control_batches[1]) < Len(TrainPool)
    /\ Len(obs.control_batches[2]) < Len(HoldoutPool)

(***************************************************************************)
(* Claims about the streak of provider-blocked snapshots                   *)
(***************************************************************************)
\* C40: the epoch is in degraded mode, or the run stopped for a blocked
\* provider, only when the baseline snapshot and the control snapshots so
\* far end with more than provider_blocked_grace_snapshots provider-blocked
\* snapshots in a row; the streak is the length of that run, zero after a
\* control snapshot that is not provider-blocked.
C40_TriggeredOnlyPastGrace ==
    /\ (run.provider_degraded_mode \/ run.stop_reason = "provider-blocked") =>
          obs.blocked_run > ocfg.provider_blocked_grace_snapshots
    /\ run.provider_blocked_streak = obs.blocked_run

\* C40 witness: a clean baseline and two blocked control snapshots with one
\* grace snapshot: the second epoch is in degraded mode, the first was not.
C40_Witness ==
    /\ run.epoch = 2
    /\ obs.blocked_run = 2
    /\ ocfg.provider_blocked_grace_snapshots = 1
    /\ run.provider_degraded_mode
    /\ opc \in {"lane", "ready"}

====
